---- MODULE Spec2Model ----
(***************************************************************************)
(* A model of the RAG application: construction of RAGSystem, the          *)
(* two-node retrieve -> generate graph behind RAGSystem.ask, the           *)
(* ingestion entry points and the chunk tagging of EmbeddingManager.       *)
(*                                                                         *)
(* Strings that the program only passes around (queries, answers, thread   *)
(* ids, metadata values) are TLA+ strings.  Strings that the program       *)
(* builds or measures (document contents, the context, texts to chunk)     *)
(* are sequences of one-character strings, so that "" is << >>, len is Len *)
(* and concatenation is \o.  A fixed literal inside such a string is one   *)
(* element (for example the "Document " prefix).                           *)
(***************************************************************************)
EXTENDS Integers, Sequences, FiniteSets, TLC

VARIABLES
    env,          \* names of the environment variables that are set
    clientsOK,    \* the external clients can be constructed
    ctorPc,       \* position of RAGSystem.__init__
    ctorError,    \* the exception __init__ raised, "" when none
    attrs,        \* attributes of the RAGSystem instance assigned so far
    rows,         \* rows of the documents table, in insertion order
    pc,           \* position of the current ask call
    query,        \* query argument of the current / last ask call
    thread,       \* thread_id argument of the current / last ask call
    state,        \* RAGState of the running graph
    fails,        \* failures that occurred during the current / last ask
    calls,        \* external calls made by the current / last ask, in order
    ret,          \* outcome of the last ask call
    checkpoint,   \* MemorySaver: thread_id -> message history
    nAsk,         \* number of ask calls started
    lastAdd,      \* outcome of the last ingestion call
    nAdd,         \* number of ingestion calls made
    chunkPc,      \* chunker: "input" before, "done" after the call
    text,         \* chunker: input text
    metadata,     \* chunker: caller's metadata mapping
    documents,    \* chunker: output of split_text_into_chunks
    file_path,    \* process_file: the path argument
    embed,        \* outcome of the last embed_query / embed_documents call
    lastSearch,   \* outcome of the last similarity_search call made directly
    heap,         \* the dict objects of a chunker caller: reference -> mapping
    refs,         \* the references the chunker's caller holds
    sessions,     \* web UI: session -> the ask call the session is running
    entry,        \* the front-end entry point that was started, "off" if none
    mainPc,       \* position of main / initialize_rag_system
    printed,      \* what the entry point has reported to the user
    rag_system,   \* what initialize_rag_system returned, "unset" before
    cliPc,        \* position of interactive_chat
    lines,        \* CLI: the input lines not read yet
    consumed,     \* CLI: the input lines read so far
    asked         \* CLI: the queries passed to ask so far

vars == <<env, clientsOK, ctorPc, ctorError, attrs, rows, pc, query, thread, state,
          fails, calls, ret, checkpoint, nAsk, lastAdd, nAdd, chunkPc, text,
          metadata, documents, file_path, embed, lastSearch, heap, refs, sessions, entry, mainPc, printed, rag_system,
          cliPc, lines, consumed, asked>>

ctorVars == <<env, clientsOK, ctorPc, ctorError, attrs>>
askVars == <<pc, query, thread, state, fails, calls, ret, checkpoint, nAsk>>
addVars == <<lastAdd, nAdd>>
unitVars == <<lastSearch, heap, refs>>
chunkVars == <<chunkPc, text, metadata, documents, file_path, embed, unitVars>>
cliVars == <<entry, mainPc, printed, rag_system, cliPc, lines, consumed, asked>>
frontVars == <<sessions, cliVars>>

----------------------------------------------------------------------------
(* Bounds *)

MaxAsks == 2
MaxAdds == 1
MaxRows == 3
MaxTextLen == 8
\* ask calls of one web session
MaxSessionAsks == 1
\* input lines given to the CLI loop
MaxLines == 3
MaxReprompts == 2
\* chunk_size and chunk_overlap of the text splitter, scaled down from
\* 1000 and 200 (same ratio)
ChunkSize == 5
ChunkOverlap == 1

----------------------------------------------------------------------------
(* Small helpers *)

Range(s) == {s[i] : i \in DOMAIN s}

RECURSIVE Flatten(_)
Flatten(ss) == IF ss = <<>> THEN <<>> ELSE Head(ss) \o Flatten(Tail(ss))

----------------------------------------------------------------------------
(* Program constants *)

required_env_vars == {"OPENAI_API_KEY", "SUPABASE_URL", "SUPABASE_KEY"}

\* the methods class SupabaseManager defines
SupabaseManagerMethods ==
    {"__init__", "add_documents", "similarity_search",
     "similarity_search_with_score"}

RetrieveK == 4

NoDocumentsContext == <<"No relevant documents found.">>
GenerateErrorAnswer == "Anteeksi, tapahtui virhe vastausta generoitaessa."
AskErrorAnswer == "Anteeksi, tapahtui virhe kysymystä käsiteltäessä."

ResultKeys == {"query", "answer", "retrieved_docs", "context"}

\* inputs
Queries == {"q1", "q2"}
Threads == {"default", "t2"}
LLMAnswers == {"answer1", "answer2"}

----------------------------------------------------------------------------
(* RAGSystem.__init__, one action per statement *)

\* self.llm = ChatOpenAI(model=model_name, temperature=0)
CtorLLM ==
    /\ ctorPc = "llm"
    /\ IF "OPENAI_API_KEY" \in env /\ clientsOK
       THEN /\ attrs' = attrs \cup {"llm"}
            /\ ctorPc' = "supabase_manager"
            /\ UNCHANGED ctorError
       ELSE /\ ctorPc' = "raised"
            /\ ctorError' = "OpenAIError"
            /\ UNCHANGED attrs
    /\ UNCHANGED <<env, clientsOK, rows, askVars, addVars, chunkVars, frontVars>>

\* self.supabase_manager = SupabaseManager()
CtorSupabaseManager ==
    /\ ctorPc = "supabase_manager"
    /\ IF ~ {"SUPABASE_URL", "SUPABASE_KEY"} \subseteq env
       THEN /\ ctorPc' = "raised"
            /\ ctorError' = "ValueError"
            /\ UNCHANGED attrs
       ELSE IF ~ clientsOK
       THEN /\ ctorPc' = "raised"
            /\ ctorError' = "ClientError"
            /\ UNCHANGED attrs
       ELSE /\ attrs' = attrs \cup {"supabase_manager"}
            /\ ctorPc' = "embedding_manager"
            /\ UNCHANGED ctorError
    /\ UNCHANGED <<env, clientsOK, rows, askVars, addVars, chunkVars, frontVars>>

\* self.embedding_manager = EmbeddingManager()
CtorEmbeddingManager ==
    /\ ctorPc = "embedding_manager"
    /\ IF "OPENAI_API_KEY" \in env /\ ~ clientsOK
       THEN /\ ctorPc' = "raised"
            /\ ctorError' = "ClientError"
            /\ UNCHANGED attrs
       ELSE /\ attrs' = attrs \cup {"embedding_manager"}
            /\ ctorPc' = "build_graph"
            /\ UNCHANGED ctorError
    /\ UNCHANGED <<env, clientsOK, rows, askVars, addVars, chunkVars, frontVars>>

\* self.graph = None; self._build_graph()
CtorBuildGraph ==
    /\ ctorPc = "build_graph"
    /\ attrs' = attrs \cup {"graph"}
    /\ ctorPc' = "initialize_vector_store"
    /\ UNCHANGED <<env, clientsOK, ctorError, rows, askVars, addVars,
                   chunkVars, frontVars>>

\* self.supabase_manager.initialize_vector_store()
CtorInitializeVectorStore ==
    /\ ctorPc = "initialize_vector_store"
    /\ IF "initialize_vector_store" \in SupabaseManagerMethods
       THEN /\ ctorPc' = "ready"
            /\ UNCHANGED ctorError
       ELSE /\ ctorPc' = "raised"
            /\ ctorError' = "AttributeError"
    /\ UNCHANGED <<env, clientsOK, attrs, rows, askVars, addVars, chunkVars, frontVars>>

\* __init__ has returned or raised; the methods below act on the instance
\* with the attributes it has been given so far
Constructed == ctorPc \in {"ready", "raised"}

----------------------------------------------------------------------------
(* SupabaseManager.similarity_search and the match_documents procedure *)

\* the orderings of the table's rows a similarity ranking can produce
Rankings(n) ==
    {p \in [1..n -> 1..n] : \A i, j \in 1..n : i # j => p[i] # p[j]}

\* the filter argument left out (None)
NoFilter == [is_none |-> TRUE]

\* "if filter:" -- None and the empty dict both leave the key out of params
FilterGiven(filter) == filter # NoFilter /\ DOMAIN filter # {}

\* the procedure's default: filter JSONB DEFAULT '{}'
FilterParam(filter) == IF FilterGiven(filter) THEN filter ELSE <<>>

\* WHERE metadata @> filter
MetadataContains(md, filter) ==
    \A key \in DOMAIN filter : key \in DOMAIN md /\ md[key] = filter[key]

\* the first m elements of s
Limit(s, m) == SubSeq(s, 1, IF m < Len(s) THEN m ELSE Len(s))

\* WHERE metadata @> filter ORDER BY distance LIMIT match_count, under the
\* ranking the embeddings give
match_documents_filter(table, ranking, match_count, filter) ==
    Limit(SelectSeq([i \in 1..Len(table) |-> table[ranking[i]]],
                    LAMBDA row : MetadataContains(row.metadata, filter)),
          match_count)

\* match_documents called without a filter: the default '{}' keeps every row
match_documents(table, ranking, match_count) ==
    match_documents_filter(table, ranking, match_count, <<>>)

EmbedCall(q) ==
    [op |-> "embed_query", query |-> q, k |-> 0, filter |-> <<>>,
     context |-> <<>>]
\* params of the rpc: match_count, and filter when one is given
RpcCallFilter(q, k, filter) ==
    [op |-> "match_documents", query |-> q, k |-> k,
     filter |-> FilterParam(filter), context |-> <<>>]
RpcCall(q, k) == RpcCallFilter(q, k, NoFilter)
LLMCall(q, c) ==
    [op |-> "llm", query |-> q, k |-> 0, filter |-> <<>>, context |-> c]

\* the loop over response.data: one Document per returned row
ToDocuments(data) ==
    [i \in 1..Len(data) |->
        [page_content |-> data[i].content, metadata |-> data[i].metadata]]

\* the store search made a second time when the first attempt fails, and
\* the failure reported under a name of the retriever's own
similarity_search_filter_retry(q, k, filter, table, ranking, embedOK, rpcOK) ==
    IF ~ embedOK
    THEN [raised |-> TRUE, error |-> "embedding", docs |-> <<>>,
          calls |-> <<EmbedCall(q)>>]
    ELSE IF ~ rpcOK
    THEN [raised |-> TRUE, error |-> "search", docs |-> <<>>,
          calls |-> <<EmbedCall(q), RpcCallFilter(q, k, filter),
                      RpcCallFilter(q, k, filter)>>]
    ELSE [raised |-> FALSE, error |-> "",
          docs |-> ToDocuments(match_documents_filter(
                       table, ranking, k, FilterParam(filter))),
          calls |-> <<EmbedCall(q), RpcCallFilter(q, k, filter)>>]

\* similarity_search(query, k, filter)
\* embedOK / rpcOK: whether the embedding provider and the store answer
similarity_search_filter(q, k, filter, table, ranking, embedOK, rpcOK) ==
    IF ~ embedOK
    THEN [raised |-> TRUE, error |-> "embedding", docs |-> <<>>,
          calls |-> <<EmbedCall(q)>>]
    ELSE IF ~ rpcOK
    THEN [raised |-> TRUE, error |-> "store", docs |-> <<>>,
          calls |-> <<EmbedCall(q), RpcCallFilter(q, k, filter)>>]
    ELSE [raised |-> FALSE, error |-> "",
          docs |-> ToDocuments(match_documents_filter(
                       table, ranking, k, FilterParam(filter))),
          calls |-> <<EmbedCall(q), RpcCallFilter(q, k, filter)>>]

\* similarity_search(query, k): the filter argument left at its default
similarity_search(q, k, table, ranking, embedOK, rpcOK) ==
    similarity_search_filter(q, k, NoFilter, table, ranking, embedOK, rpcOK)

----------------------------------------------------------------------------
(* RAGSystem._retrieve_documents *)

RECURSIVE Join(_, _)
Join(parts, sep) ==
    IF parts = <<>> THEN <<>>
    ELSE IF Len(parts) = 1 THEN parts[1]
    ELSE parts[1] \o sep \o Join(Tail(parts), sep)

\* f"Document {i}:\n{doc.page_content}\n"
ContextPart(i, doc) ==
    <<"Document ", ToString(i), ":", "\n">> \o doc.page_content \o <<"\n">>

\* the parts joined without the separating line break
AssembleContext_no_separator(docs) ==
    Flatten([i \in 1..Len(docs) |-> ContextPart(i, docs[i])])

\* context_parts of the loop, then "\n".join(context_parts)
AssembleContext(docs) ==
    Join([i \in 1..Len(docs) |-> ContextPart(i, docs[i])], <<"\n">>)

\* the except block returning the empty context instead of the sentinel
retrieve_documents_empty_context(search) ==
    IF search.raised
    THEN [retrieved_docs |-> <<>>, context |-> <<>>]
    ELSE [retrieved_docs |-> search.docs,
          context |-> AssembleContext(search.docs)]

\* search: the outcome of similarity_search
retrieve_documents(search) ==
    IF search.raised
    THEN [retrieved_docs |-> <<>>, context |-> NoDocumentsContext]
    ELSE [retrieved_docs |-> search.docs,
          context |-> AssembleContext(search.docs)]

----------------------------------------------------------------------------
(* RAGSystem._generate_answer *)

HumanMessage(c) == [role |-> "human", content |-> c]
AIMessage(c) == [role |-> "ai", content |-> c]

\* llmOK: whether the completion provider answers; response: its content
generate_answer(q, llmOK, response) ==
    IF llmOK
    THEN [answer |-> response,
          messages |-> <<HumanMessage(q), AIMessage(response)>>]
    ELSE [answer |-> GenerateErrorAnswer,
          messages |-> <<HumanMessage(q), AIMessage(GenerateErrorAnswer)>>]

----------------------------------------------------------------------------
(* RAGSystem.ask *)

NoRet == [raised |-> FALSE, value |-> [none |-> TRUE]]

initial_state(q) ==
    [query |-> q, messages |-> <<>>, retrieved_docs |-> <<>>,
     context |-> <<>>, answer |-> ""]

\* a return that treats the generation apology as a failure of ask
ask_return_error_on_apology(q, result) ==
    IF result.answer = GenerateErrorAnswer
    THEN [raised |-> FALSE,
          value |-> [query |-> q, answer |-> AskErrorAnswer,
                     retrieved_docs |-> <<>>, context |-> <<>>]]
    ELSE [raised |-> FALSE,
          value |-> [query |-> q, answer |-> result.answer,
                     retrieved_docs |-> result.retrieved_docs,
                     context |-> result.context]]

\* the return statement of the try block
ask_return(q, result) ==
    [raised |-> FALSE,
     value |-> [query |-> q, answer |-> result.answer,
                retrieved_docs |-> result.retrieved_docs,
                context |-> result.context]]

\* ask without its except block: the exception reaches the caller
ask_except_reraise(q) ==
    [raised |-> TRUE, value |-> [error |-> "Exception"]]

\* the except Exception block
ask_except(q) ==
    [raised |-> FALSE,
     value |-> [query |-> q, answer |-> AskErrorAnswer,
                retrieved_docs |-> <<>>, context |-> <<>>]]

\* the graph run started from the channels the previous run left, with only
\* the query replaced
AskStart_keep_channels(q, t) ==
    /\ Constructed
    /\ pc = "idle"
    /\ nAsk < MaxAsks
    /\ nAsk' = nAsk + 1
    /\ query' = q
    /\ thread' = t
    /\ calls' = <<>>
    /\ IF "graph" \in attrs
       THEN /\ pc' = "retrieve"
            /\ state' = [state EXCEPT !.query = q, !.messages = checkpoint[t]]
            /\ fails' = {}
            /\ ret' = NoRet
       ELSE /\ pc' = "idle"
            /\ state' = initial_state(q)
            /\ fails' = {"graph"}
            /\ ret' = ask_except(q)
    /\ UNCHANGED <<ctorVars, rows, checkpoint, addVars, chunkVars, frontVars>>

\* ask is entered; without a graph attribute (or with graph None) the try
\* block raises at once and the except block returns
AskStart(q, t) ==
    /\ Constructed
    /\ pc = "idle"
    /\ nAsk < MaxAsks
    /\ nAsk' = nAsk + 1
    /\ query' = q
    /\ thread' = t
    /\ calls' = <<>>
    /\ IF "graph" \in attrs
       THEN /\ pc' = "retrieve"
            \* add_messages: the messages channel keeps the thread's history
            /\ state' = [initial_state(q) EXCEPT !.messages = checkpoint[t]]
            /\ fails' = {}
            /\ ret' = NoRet
       ELSE /\ pc' = "idle"
            /\ state' = initial_state(q)
            /\ fails' = {"graph"}
            /\ ret' = ask_except(q)
    /\ UNCHANGED <<ctorVars, rows, checkpoint, addVars, chunkVars, frontVars>>

\* the update the retrieve node returns, merged into the graph state
RetrieveOutput(out) ==
    state' = [state EXCEPT !.retrieved_docs = out.retrieved_docs,
                           !.context = out.context]

\* a failed search made a second time before the node gives up
RetrieveUpdate_retry(search) ==
    /\ RetrieveOutput(retrieve_documents(search))
    /\ calls' = calls \o search.calls
                      \o (IF search.raised THEN search.calls ELSE <<>>)
    /\ fails' = IF search.raised THEN fails \cup {search.error} ELSE fails

\* the retrieve node's body: one similarity_search, its outcome merged
RetrieveUpdate(search) ==
    /\ RetrieveOutput(retrieve_documents(search))
    /\ calls' = calls \o search.calls
    /\ fails' = IF search.raised THEN fails \cup {search.error} ELSE fails

\* a conditional edge that ends the run when the search failed
Retrieve_error_edge ==
    /\ pc = "retrieve"
    /\ \E embedOK, rpcOK \in BOOLEAN, ranking \in Rankings(Len(rows)) :
         /\ RetrieveUpdate(similarity_search(state.query, RetrieveK, rows,
                                             ranking, embedOK, rpcOK))
         /\ pc' = IF embedOK /\ rpcOK THEN "generate" ELSE "finish"
    /\ UNCHANGED <<ctorVars, rows, query, thread, ret, checkpoint, nAsk,
                   addVars, chunkVars, frontVars>>

\* node "retrieve", followed by the edge retrieve -> generate
Retrieve ==
    /\ pc = "retrieve"
    /\ \E embedOK, rpcOK \in BOOLEAN, ranking \in Rankings(Len(rows)) :
         RetrieveUpdate(similarity_search(state.query, RetrieveK, rows,
                                          ranking, embedOK, rpcOK))
    /\ pc' = "generate"
    /\ UNCHANGED <<ctorVars, rows, query, thread, ret, checkpoint, nAsk,
                   addVars, chunkVars, frontVars>>

\* the messages channel replaced by the node's messages instead of extended
GenerateOutput_overwrite(out) ==
    /\ state' = [state EXCEPT !.answer = out.answer,
                              !.messages = out.messages]
    /\ checkpoint' = [checkpoint EXCEPT ![thread] = out.messages]

\* the update the generate node returns, merged into the graph state; the
\* add_messages reducer appends the messages to the thread's history
GenerateOutput(out) ==
    /\ state' = [state EXCEPT !.answer = out.answer,
                              !.messages = @ \o out.messages]
    /\ checkpoint' = [checkpoint EXCEPT ![thread] = @ \o out.messages]

\* node "generate"; its messages are appended to the thread's checkpoint
Generate ==
    /\ pc = "generate"
    /\ \E llmOK \in BOOLEAN, response \in LLMAnswers :
         /\ GenerateOutput(generate_answer(state.query, llmOK, response))
         /\ fails' = IF llmOK THEN fails ELSE fails \cup {"completion"}
    /\ calls' = Append(calls, LLMCall(state.query, state.context))
    /\ pc' = "finish"
    /\ UNCHANGED <<ctorVars, rows, query, thread, ret, nAsk, addVars,
                   chunkVars, frontVars>>

\* graph.invoke returned: the return statement of the try block
AskReturn ==
    /\ pc = "finish"
    /\ ret' = ask_return(query, state)
    /\ pc' = "idle"
    /\ UNCHANGED <<ctorVars, rows, query, thread, state, fails, calls,
                   checkpoint, nAsk, addVars, chunkVars, frontVars>>

\* graph.invoke itself raised (before, between or after the nodes)
GraphInvokeRaises ==
    /\ pc \in {"retrieve", "generate", "finish"}
    /\ fails' = fails \cup {"graph"}
    /\ ret' = ask_except(query)
    /\ pc' = "idle"
    /\ UNCHANGED <<ctorVars, rows, query, thread, state, calls, checkpoint,
                   nAsk, addVars, chunkVars, frontVars>>

----------------------------------------------------------------------------
(* EmbeddingManager: the text splitter                                     *)
(* RecursiveCharacterTextSplitter(chunk_size, chunk_overlap,               *)
(*   length_function=len, separators=["\n\n", "\n", " ", ""])              *)

separators == << <<"\n", "\n">>, <<"\n">>, <<" ">>, <<>> >>

Whitespace == {" ", "\n"}

RECURSIVE LStrip(_)
LStrip(s) ==
    IF s # <<>> /\ Head(s) \in Whitespace THEN LStrip(Tail(s)) ELSE s

RECURSIVE RStrip(_)
RStrip(s) ==
    IF s # <<>> /\ s[Len(s)] \in Whitespace
    THEN RStrip(SubSeq(s, 1, Len(s) - 1)) ELSE s

Strip(s) == RStrip(LStrip(s))

\* whether sep occurs in s at position i
MatchAt(s, sep, i) ==
    /\ i + Len(sep) - 1 <= Len(s)
    /\ SubSeq(s, i, i + Len(sep) - 1) = sep

Contains(s, sep) == \E i \in 1..Len(s) : MatchAt(s, sep, i)

\* the position of the leftmost occurrence of sep in s
FirstMatch(s, sep) ==
    CHOOSE j \in 1..Len(s) :
        /\ MatchAt(s, sep, j)
        /\ \A h \in 1..(j - 1) : ~ MatchAt(s, sep, h)

\* the pieces between the leftmost non-overlapping occurrences of sep
RECURSIVE Pieces(_, _)

CutAt(s, sep, i) ==
    <<SubSeq(s, 1, i - 1)>> \o Pieces(SubSeq(s, i + Len(sep), Len(s)), sep)

Pieces(s, sep) ==
    IF ~ Contains(s, sep) THEN <<s>>
    ELSE CutAt(s, sep, FirstMatch(s, sep))

\* _split_text_with_regex with keep_separator=True: each separator is kept
\* at the start of the piece that follows it; empty pieces are dropped
WithSeparator(ps, sep) ==
    [i \in 1..Len(ps) |-> IF i = 1 THEN ps[1] ELSE sep \o ps[i]]

SplitKeepSeparator(s, sep) ==
    SelectSeq(IF sep = <<>>
              THEN [i \in 1..Len(s) |-> <<s[i]>>]
              ELSE WithSeparator(Pieces(s, sep), sep),
              LAMBDA x : x # <<>>)

\* _join_docs with separator "" and strip_whitespace: None when empty
JoinDocs(cur) == Strip(Flatten(cur))

\* the while loop of _merge_splits: drop leading pieces of current_doc
RECURSIVE DropForOverlap(_, _, _)
DropForOverlap(cur, total, len) ==
    IF total > ChunkOverlap \/ (total + len > ChunkSize /\ total > 0)
    THEN DropForOverlap(Tail(cur), total - Len(Head(cur)), len)
    ELSE [cur |-> cur, total |-> total]

\* docs.append(doc) unless _join_docs returned None
AppendDoc(docs, doc) == IF doc # <<>> THEN Append(docs, doc) ELSE docs

\* the for loop of _merge_splits from split number i on
RECURSIVE MergeLoop(_, _, _, _, _)

\* current_doc.append(d) after the while loop left kept
MergeAfterDrop(splits, i, docs, kept, d) ==
    MergeLoop(splits, i + 1, docs, Append(kept.cur, d), kept.total + Len(d))

MergeLoop(splits, i, docs, cur, total) ==
    IF i > Len(splits)
    THEN AppendDoc(docs, JoinDocs(cur))
    ELSE IF total + Len(splits[i]) > ChunkSize /\ cur # <<>>
    THEN MergeAfterDrop(splits, i, AppendDoc(docs, JoinDocs(cur)),
                        DropForOverlap(cur, total, Len(splits[i])),
                        splits[i])
    ELSE MergeLoop(splits, i + 1, docs, Append(cur, splits[i]),
                   total + Len(splits[i]))

\* the splits joined into one document whatever their total length
merge_splits_no_limit(splits) == AppendDoc(<<>>, JoinDocs(splits))

merge_splits(splits) == MergeLoop(splits, 1, <<>>, <<>>, 0)

\* the index of the separator _split_text selects for s
SeparatorIndex(s, seps) ==
    IF \E i \in 1..Len(seps) : seps[i] = <<>> \/ Contains(s, seps[i])
    THEN CHOOSE i \in 1..Len(seps) :
            /\ seps[i] = <<>> \/ Contains(s, seps[i])
            /\ \A h \in 1..(i - 1) : ~ (seps[h] = <<>> \/ Contains(s, seps[h]))
    ELSE Len(seps)

RECURSIVE split_text_rec(_, _)
RECURSIVE SplitLoop(_, _, _, _, _)

\* the for loop of _split_text over the splits from number i on
\* final_chunks.extend(self._merge_splits(_good_splits, _separator))
FlushGoodSplits(final_chunks, good_splits) ==
    IF good_splits # <<>>
    THEN final_chunks \o merge_splits(good_splits)
    ELSE final_chunks

SplitLoop(splits, i, new_separators, final_chunks, good_splits) ==
    IF i > Len(splits) \/ Len(splits[i]) >= ChunkSize
    THEN IF i > Len(splits)
         THEN FlushGoodSplits(final_chunks, good_splits)
         ELSE SplitLoop(splits, i + 1, new_separators,
                        FlushGoodSplits(final_chunks, good_splits)
                            \o (IF new_separators = <<>>
                                THEN <<splits[i]>>
                                ELSE split_text_rec(splits[i],
                                                    new_separators)),
                        <<>>)
    ELSE SplitLoop(splits, i + 1, new_separators, final_chunks,
                   Append(good_splits, splits[i]))

\* the separators left for the recursive calls once separator number k
\* has been selected
NewSeparators(s, seps, k) ==
    IF seps[k] = <<>> \/ ~ Contains(s, seps[k])
    THEN <<>>
    ELSE SubSeq(seps, k + 1, Len(seps))

SplitWithSeparator(s, seps, k) ==
    SplitLoop(SplitKeepSeparator(s, seps[k]), 1, NewSeparators(s, seps, k),
              <<>>, <<>>)

\* RecursiveCharacterTextSplitter._split_text
split_text_rec(s, seps) == SplitWithSeparator(s, seps, SeparatorIndex(s, seps))

split_text(s) == split_text_rec(s, separators)

----------------------------------------------------------------------------
(* EmbeddingManager.count_tokens and split_text_into_chunks *)

\* rounding up instead of down
count_tokens_round_up(s) == (Len(s) + 3) \div 4

count_tokens(s) == Len(s) \div 4

\* the metadata argument left out (None)
None == [is_none |-> TRUE]

ChunkKeys == {"chunk_index", "total_chunks", "token_count"}

\* d.copy() followed by .update(u)
DictUpdate(d, u) ==
    [k \in (DOMAIN d) \cup (DOMAIN u) |-> IF k \in DOMAIN u THEN u[k] ELSE d[k]]

\* chunk_index counted from 1
doc_metadata_one_based(md, chunks, i) ==
    DictUpdate(md, [chunk_index |-> i + 1,
                    total_chunks |-> Len(chunks),
                    token_count |-> count_tokens(chunks[i + 1])])

\* the metadata of chunk number i (from 0) of chunks
doc_metadata(md, chunks, i) ==
    DictUpdate(md, [chunk_index |-> i,
                    total_chunks |-> Len(chunks),
                    token_count |-> count_tokens(chunks[i + 1])])

\* the loop over enumerate(chunks): one Document per chunk
ChunkDocuments(chunks, md) ==
    [i \in 1..Len(chunks) |->
        [page_content |-> chunks[i],
         metadata |-> doc_metadata(md, chunks, i - 1)]]

split_text_into_chunks(txt, md) ==
    ChunkDocuments(split_text(txt), IF md = None THEN <<>> ELSE md)

----------------------------------------------------------------------------
(* EmbeddingManager.process_file and process_multiple_files *)

RECURSIVE LastIndexOf(_, _)
\* s.rfind(c) + 1: the position of the last c in s, 0 when there is none
LastIndexOf(s, c) ==
    IF s = <<>> THEN 0
    ELSE IF s[Len(s)] = c THEN Len(s)
    ELSE LastIndexOf(SubSeq(s, 1, Len(s) - 1), c)

\* os.path.basename
basename(path) == SubSeq(path, LastIndexOf(path, "/") + 1, Len(path))

\* os.path.splitext(path)[1]: from the last dot of the base name on, unless
\* only dots precede it
ExtFrom(base, dot) ==
    IF dot = 0 \/ \A i \in 1..(dot - 1) : base[i] = "."
    THEN <<>>
    ELSE SubSeq(base, dot, Len(base))

splitext_ext(path) ==
    ExtFrom(basename(path), LastIndexOf(basename(path), "."))

\* additional_metadata updated with the prepared metadata
file_metadata_path_wins(path, additional_metadata) ==
    DictUpdate(additional_metadata,
               [source |-> path, file_name |-> basename(path),
                file_type |-> splitext_ext(path)])

\* the metadata process_file prepares, updated with additional_metadata
file_metadata(path, additional_metadata) ==
    DictUpdate([source |-> path, file_name |-> basename(path),
                file_type |-> splitext_ext(path)],
               additional_metadata)

\* fs: path -> content of the readable files; broken: the paths for which
\* reading or splitting raises
file_raises(path, fs, broken) == path \in broken \/ path \notin DOMAIN fs

\* process_file(file_path, additional_metadata)
process_file_with_metadata(path, additional_metadata, fs, broken) ==
    IF file_raises(path, fs, broken)
    THEN [raised |-> TRUE, documents |-> <<>>]
    ELSE [raised |-> FALSE,
          documents |->
              split_text_into_chunks(
                  fs[path],
                  file_metadata(path, IF additional_metadata = None
                                      THEN <<>> ELSE additional_metadata))]

\* process_file(file_path), as process_multiple_files calls it
process_file(path, fs, broken) ==
    process_file_with_metadata(path, None, fs, broken)

\* all_documents.extend(documents), or the except branch: continue
DocumentsOrSkip(r) == IF r.raised THEN <<>> ELSE r.documents

\* process_multiple_files giving up at the first file that raises
process_multiple_files_abort(file_paths, fs, broken) ==
    IF \E i \in 1..Len(file_paths) : file_raises(file_paths[i], fs, broken)
    THEN <<>>
    ELSE Flatten([i \in 1..Len(file_paths) |->
                    process_file(file_paths[i], fs, broken).documents])

RECURSIVE process_multiple_files(_, _, _)
\* a file whose processing raises is skipped
process_multiple_files(file_paths, fs, broken) ==
    IF file_paths = <<>> THEN <<>>
    ELSE DocumentsOrSkip(process_file(Head(file_paths), fs, broken))
             \o process_multiple_files(Tail(file_paths), fs, broken)

----------------------------------------------------------------------------
(* SupabaseManager.add_documents *)

\* add_documents logging the exception without re-raising it
add_documents_swallow(docs, failAt, failKind) ==
    IF failAt = 0 \/ failAt > Len(docs)
    THEN [raised |-> FALSE, error |-> "",
          inserted |-> [i \in 1..Len(docs) |->
                          [content |-> docs[i].page_content,
                           metadata |-> docs[i].metadata]],
          embedCalls |-> Len(docs), insertCalls |-> Len(docs)]
    ELSE [raised |-> FALSE, error |-> "",
          inserted |-> [i \in 1..(failAt - 1) |->
                          [content |-> docs[i].page_content,
                           metadata |-> docs[i].metadata]],
          embedCalls |-> failAt,
          insertCalls |-> IF failKind = "store" THEN failAt ELSE failAt - 1]

\* the inserts of the call undone when one of its calls fails
add_documents_rollback(docs, failAt, failKind) ==
    IF failAt = 0 \/ failAt > Len(docs)
    THEN [raised |-> FALSE, error |-> "",
          inserted |-> [i \in 1..Len(docs) |->
                          [content |-> docs[i].page_content,
                           metadata |-> docs[i].metadata]],
          embedCalls |-> Len(docs), insertCalls |-> Len(docs)]
    ELSE [raised |-> TRUE, error |-> failKind,
          inserted |-> <<>>,
          embedCalls |-> failAt,
          insertCalls |-> IF failKind = "store" THEN failAt ELSE failAt - 1]

\* failAt = 0: every call succeeds; failAt = j > 0: the embedding call
\* (failKind "embedding") or the insert (failKind "store") of document
\* number j raises.  The rows of the documents before j have been inserted.
add_documents(docs, failAt, failKind) ==
    IF failAt = 0 \/ failAt > Len(docs)
    THEN [raised |-> FALSE, error |-> "",
          inserted |-> [i \in 1..Len(docs) |->
                          [content |-> docs[i].page_content,
                           metadata |-> docs[i].metadata]],
          embedCalls |-> Len(docs), insertCalls |-> Len(docs)]
    ELSE [raised |-> TRUE, error |-> failKind,
          inserted |-> [i \in 1..(failAt - 1) |->
                          [content |-> docs[i].page_content,
                           metadata |-> docs[i].metadata]],
          embedCalls |-> failAt,
          insertCalls |-> IF failKind = "store" THEN failAt ELSE failAt - 1]

----------------------------------------------------------------------------
(* RAGSystem.add_text_document and add_documents_from_files *)

NoAdd == [op |-> "", raised |-> FALSE, value |-> FALSE, error |-> "",
          chunks |-> 0, inserted |-> 0, embedCalls |-> 0, insertCalls |-> 0,
          files |-> 0, skipped |-> 0]

\* the arguments of an ingestion call and what its environment did, kept
\* with the outcome in lastAdd
AddInputs(splitOK, failAt, failKind, file_paths, broken, rowsBefore) ==
    [splitOK |-> splitOK, failAt |-> failAt, failKind |-> failKind,
     file_paths |-> file_paths, broken |-> broken, rowsBefore |-> rowsBefore]

\* the except Exception block of both entry points: return False
add_except(op, error, chunks, store, files, skipped) ==
    [op |-> op, raised |-> FALSE, value |-> FALSE, error |-> error,
     chunks |-> chunks, inserted |-> Len(store.inserted),
     embedCalls |-> store.embedCalls, insertCalls |-> store.insertCalls,
     files |-> files, skipped |-> skipped]

\* return True at the end of the try block
add_return_true(op, chunks, store, files, skipped) ==
    [op |-> op, raised |-> FALSE, value |-> TRUE, error |-> "",
     chunks |-> chunks, inserted |-> Len(store.inserted),
     embedCalls |-> store.embedCalls, insertCalls |-> store.insertCalls,
     files |-> files, skipped |-> skipped]

NoStoreCall == [raised |-> FALSE, error |-> "", inserted |-> <<>>,
                embedCalls |-> 0, insertCalls |-> 0]

\* the outcome of add_documents turned into the entry point's outcome
StoreOutcome(op, chunks, store, files, skipped) ==
    IF store.raised
    THEN [out |-> add_except(op, store.error, chunks, store, files, skipped),
          inserted |-> store.inserted]
    ELSE [out |-> add_return_true(op, chunks, store, files, skipped),
          inserted |-> store.inserted]

\* self.supabase_manager.add_documents(documents) inside the try block
StoreDocuments(op, docs, failAt, failKind, files, skipped) ==
    IF "supabase_manager" \notin attrs
    THEN [out |-> add_except(op, "attribute", Len(docs), NoStoreCall, files,
                             skipped),
          inserted |-> <<>>]
    ELSE StoreOutcome(op, Len(docs), add_documents(docs, failAt, failKind),
                      files, skipped)

\* splitOK: whether split_text_into_chunks returns (it raises otherwise)
add_text_document(txt, md, splitOK, failAt, failKind) ==
    IF "embedding_manager" \notin attrs
    THEN [out |-> add_except("add_text_document", "attribute", 0,
                             NoStoreCall, 0, 0),
          inserted |-> <<>>]
    ELSE IF ~ splitOK
    THEN [out |-> add_except("add_text_document", "chunking", 0,
                             NoStoreCall, 0, 0),
          inserted |-> <<>>]
    ELSE StoreDocuments("add_text_document", split_text_into_chunks(txt, md),
                        failAt, failKind, 0, 0)

\* "No documents were processed": return False without calling the store
add_no_documents(files, skipped) ==
    [op |-> "add_documents_from_files", raised |-> FALSE, value |-> FALSE,
     error |-> "no_documents", chunks |-> 0, inserted |-> 0,
     embedCalls |-> 0, insertCalls |-> 0, files |-> files,
     skipped |-> skipped]

\* the number of files of the call that process_multiple_files skips
Skipped(file_paths, fs, broken) ==
    Cardinality({i \in 1..Len(file_paths) :
                    file_raises(file_paths[i], fs, broken)})

\* the documents handed to the store without the test for an empty list
StoreFileDocuments_no_test(docs, failAt, failKind, files, skipped) ==
    StoreDocuments("add_documents_from_files", docs, failAt, failKind,
                   files, skipped)

\* if not documents: return False; otherwise the documents go to the store
StoreFileDocuments(docs, failAt, failKind, files, skipped) ==
    IF docs = <<>>
    THEN [out |-> add_no_documents(files, skipped), inserted |-> <<>>]
    ELSE StoreDocuments("add_documents_from_files", docs, failAt, failKind,
                        files, skipped)

add_documents_from_files(file_paths, fs, broken, failAt, failKind) ==
    IF "embedding_manager" \notin attrs
    THEN [out |-> add_except("add_documents_from_files", "attribute", 0,
                             NoStoreCall, Len(file_paths), 0),
          inserted |-> <<>>]
    ELSE StoreFileDocuments(process_multiple_files(file_paths, fs, broken),
                            failAt, failKind, Len(file_paths),
                            Skipped(file_paths, fs, broken))

\* inputs of the ingestion calls

IngestTexts == { <<>>, <<"a", " ", "a">>,
                 <<"a", "a", " ", "a", "a", " ", "a", "a">> }
IngestMetadatas == { None, [topic |-> "t"] }

PathA == <<"d", "/", "a", ".", "t">>
PathE == <<"e", ".", "m">>
PathMissing == <<"x", ".", "t">>
Paths == {PathA, PathE, PathMissing}

\* the readable files and their contents
FileSystem ==
    [p \in {PathA, PathE} |->
        IF p = PathA THEN <<"a", "a", " ", "a", "a", " ", "a", "a">>
        ELSE <<>>]

FilePathLists ==
    {<<>>} \cup {<<p>> : p \in Paths} \cup {<<p, q>> : p, q \in Paths}

FailKinds == {"embedding", "store"}

\* r: what the call did; the rows it inserted are in the table afterwards.
\* A failure is injected at a chunk the call has, and the table stays
\* within MaxRows.
AddOutcome(r, inputs) ==
    /\ inputs.failAt <= r.out.chunks
    /\ Len(rows) + Len(r.inserted) <= MaxRows
    /\ rows' = rows \o r.inserted
    /\ lastAdd' = r.out @@ inputs

AddTextDocument ==
    /\ Constructed
    /\ pc = "idle"
    /\ nAdd < MaxAdds
    /\ \E txt \in IngestTexts, md \in IngestMetadatas, splitOK \in BOOLEAN,
          failAt \in 0..MaxRows, failKind \in FailKinds :
         /\ failAt = 0 => failKind = "embedding"
         /\ AddOutcome(add_text_document(txt, md, splitOK, failAt, failKind),
                       AddInputs(splitOK, failAt, failKind, <<>>, {},
                                 Len(rows)))
    /\ nAdd' = nAdd + 1
    /\ UNCHANGED <<ctorVars, askVars, chunkVars, frontVars>>

AddDocumentsFromFiles ==
    /\ Constructed
    /\ pc = "idle"
    /\ nAdd < MaxAdds
    /\ \E file_paths \in FilePathLists, broken \in SUBSET Paths,
          failAt \in 0..MaxRows, failKind \in FailKinds :
         /\ broken \subseteq Range(file_paths)
         /\ failAt = 0 => failKind = "embedding"
         /\ AddOutcome(add_documents_from_files(file_paths, FileSystem,
                                                broken, failAt, failKind),
                       AddInputs(TRUE, failAt, failKind, file_paths, broken,
                                 Len(rows)))
    /\ nAdd' = nAdd + 1
    /\ UNCHANGED <<ctorVars, askVars, chunkVars, frontVars>>

----------------------------------------------------------------------------
(* The chunker on its own *)

TextAlphabet == {"a", " ", "\n"}

Texts == UNION {[1..n -> TextAlphabet] : n \in 0..MaxTextLen}

Metadatas ==
    { None,
      <<>>,
      [topic |-> "t"],
      [topic |-> "t", chunk_index |-> 7],
      [total_chunks |-> 0, token_count |-> 9] }

SplitTextIntoChunks ==
    /\ chunkPc = "input"
    /\ documents' = split_text_into_chunks(text, metadata)
    /\ chunkPc' = "done"
    /\ UNCHANGED <<ctorVars, rows, askVars, addVars, text, metadata,
                   file_path, embed, unitVars, frontVars>>

----------------------------------------------------------------------------
(* The chunker and the dict objects of its caller                          *)
(* heap[r] is the mapping held by the dict object with reference r; the    *)
(* caller's metadata argument is a reference (0 for None), and every       *)
(* Document of the result refers to the dict its metadata is.              *)

\* the dict object metadata names inside the call: the caller's object, or
\* the new empty dict of "if metadata is None: metadata = {}"
HeapWithArgument(h, m) == IF m = 0 THEN Append(h, <<>>) ELSE h
ArgumentRef(h, m) == IF m = 0 THEN Len(h) + 1 ELSE m

RECURSIVE UpdateInPlace(_, _, _, _)
\* doc_metadata = metadata (no copy) and doc_metadata.update(...) for the
\* chunks from number i on: every update lands in the one object r
UpdateInPlace(h, r, chunks, i) ==
    IF i > Len(chunks) THEN h
    ELSE UpdateInPlace([h EXCEPT ![r] = doc_metadata(@, chunks, i - 1)],
                       r, chunks, i + 1)

\* the loop without metadata.copy(): every Document refers to the object
\* of the argument
chunk_objects_no_copy(h, m, chunks) ==
    [heap |-> UpdateInPlace(HeapWithArgument(h, m), ArgumentRef(h, m),
                            chunks, 1),
     refs |-> [i \in 1..Len(chunks) |-> ArgumentRef(h, m)]]

\* the loop over enumerate(chunks): doc_metadata = metadata.copy() makes a
\* new dict object per chunk, doc_metadata.update(...) changes that object
chunk_objects(h, m, chunks) ==
    [heap |-> HeapWithArgument(h, m)
              \o [i \in 1..Len(chunks) |->
                     doc_metadata(HeapWithArgument(h, m)[ArgumentRef(h, m)],
                                  chunks, i - 1)],
     refs |-> [i \in 1..Len(chunks) |->
                  Len(HeapWithArgument(h, m)) + i]]

\* the Documents of a call, read through their references
DocumentsAt(h, rs, chunks) ==
    [i \in 1..Len(chunks) |->
        [page_content |-> chunks[i], metadata |-> h[rs[i]]]]

\* the texts: no chunk, one chunk, several chunks
AliasTexts ==
    { <<>>,
      <<"a">>,
      <<"a", "a", "a", " ", "a", "a", "a">>,
      <<"a", "a", " ", "a", "a", "a", "a", "\n", "a">> }

\* the keys a caller sets in the metadata of a returned Document
TouchedKeys == {"topic", "note"}

\* first call: split_text_into_chunks(text, metadata)
SplitFirst ==
    /\ chunkPc = "alias_input"
    /\ heap' = chunk_objects(heap, refs.caller, split_text(text)).heap
    /\ refs' = [refs EXCEPT !.first =
                   chunk_objects(heap, refs.caller, split_text(text)).refs]
    /\ documents' = DocumentsAt(heap', refs'.first, split_text(text))
    /\ chunkPc' = "alias_first"
    /\ UNCHANGED <<ctorVars, rows, askVars, addVars, text, metadata,
                   file_path, embed, lastSearch, frontVars>>

\* the caller sets a key in the metadata of one returned Document
TouchChunk ==
    /\ chunkPc = "alias_first"
    /\ refs.touched = 0
    /\ \E i \in 1..Len(refs.first), key \in TouchedKeys :
         /\ heap' = [heap EXCEPT ![refs.first[i]] =
                         DictUpdate(@, [k \in {key} |-> "changed"])]
         /\ refs' = [refs EXCEPT !.touched = i]
    /\ UNCHANGED <<ctorVars, rows, askVars, addVars, chunkPc, text, metadata,
                   documents, file_path, embed, lastSearch, frontVars>>

\* second call with the same text and the same metadata argument
SplitSecond ==
    /\ chunkPc = "alias_first"
    /\ heap' = chunk_objects(heap, refs.caller, split_text(text)).heap
    /\ refs' = [refs EXCEPT !.second =
                   chunk_objects(heap, refs.caller, split_text(text)).refs]
    /\ chunkPc' = "alias_second"
    /\ UNCHANGED <<ctorVars, rows, askVars, addVars, text, metadata,
                   documents, file_path, embed, lastSearch, frontVars>>

----------------------------------------------------------------------------
(* streamlit_app.py: the chat input of the web sessions                    *)
(* initialize_rag_system is cached with st.cache_resource, so every        *)
(* session calls ask on the same RAGSystem, and every session passes       *)
(* thread_id="streamlit_session".                                          *)

\* the browser sessions
Sessions == {"s1", "s2"}

StreamlitThread == "streamlit_session"

\* the prompt a session types into its chat input
Prompt == [s \in Sessions |-> IF s = "s1" THEN "q1" ELSE "q2"]

\* a session that has not asked anything
NoSession ==
    [pc |-> "idle", prompt |-> "", state |-> initial_state(""),
     ret |-> NoRet, n |-> 0]

\* rag_system.ask(prompt, thread_id="streamlit_session") is entered: the run
\* loads the channels checkpointed for the thread and applies its input
SessionAsk(s) ==
    /\ Constructed
    /\ "graph" \in attrs
    /\ sessions[s].pc = "idle"
    /\ sessions[s].n < MaxSessionAsks
    /\ sessions' = [sessions EXCEPT ![s] =
          [pc |-> "retrieve", prompt |-> Prompt[s],
           state |-> [initial_state(Prompt[s]) EXCEPT
                        !.messages = checkpoint[StreamlitThread]],
           ret |-> NoRet, n |-> @.n + 1]]
    /\ UNCHANGED <<ctorVars, rows, askVars, addVars, chunkVars, cliVars>>

\* the update of the retrieve node merged into the run's own channels
SessionRetrieveUpdate(s, out) ==
    sessions' = [sessions EXCEPT
                   ![s].state.retrieved_docs = out.retrieved_docs,
                   ![s].state.context = out.context,
                   ![s].pc = "generate"]

\* node "retrieve" of the run of session s
SessionRetrieve(s) ==
    /\ sessions[s].pc = "retrieve"
    /\ \E embedOK, rpcOK \in BOOLEAN, ranking \in Rankings(Len(rows)) :
         SessionRetrieveUpdate(s,
             retrieve_documents(
                 similarity_search(sessions[s].state.query, RetrieveK, rows,
                                   ranking, embedOK, rpcOK)))
    /\ UNCHANGED <<ctorVars, rows, askVars, addVars, chunkVars, cliVars>>

\* the update of the generate node merged into the run's own channels; the
\* checkpoint of the thread then holds either the run's messages channel
\* or the stored history extended by the node's messages, whichever the
\* checkpointer makes of two runs saving on one thread
SessionGenerateUpdate(s, out) ==
    /\ sessions' = [sessions EXCEPT
                      ![s].state.answer = out.answer,
                      ![s].state.messages = @ \o out.messages,
                      ![s].pc = "finish"]
    /\ \E saved \in {sessions[s].state.messages \o out.messages,
                      checkpoint[StreamlitThread] \o out.messages} :
         checkpoint' = [checkpoint EXCEPT ![StreamlitThread] = saved]

\* node "generate" of the run of session s
SessionGenerate(s) ==
    /\ sessions[s].pc = "generate"
    /\ \E llmOK \in BOOLEAN, response \in LLMAnswers :
         SessionGenerateUpdate(s, generate_answer(sessions[s].state.query,
                                                  llmOK, response))
    /\ UNCHANGED <<ctorVars, rows, pc, query, thread, state, fails, calls,
                   ret, nAsk, addVars, chunkVars, cliVars>>

\* ask returns to the session's script
SessionReturn(s) ==
    /\ sessions[s].pc = "finish"
    /\ sessions' = [sessions EXCEPT
                      ![s].ret = ask_return(sessions[s].prompt,
                                            sessions[s].state),
                      ![s].pc = "idle"]
    /\ UNCHANGED <<ctorVars, rows, askVars, addVars, chunkVars, cliVars>>

\* graph.invoke of the session's run raised: the except block of ask
SessionInvokeRaises(s) ==
    /\ sessions[s].pc \in {"retrieve", "generate", "finish"}
    /\ sessions' = [sessions EXCEPT
                      ![s].ret = ask_except(sessions[s].prompt),
                      ![s].pc = "idle"]
    /\ UNCHANGED <<ctorVars, rows, askVars, addVars, chunkVars, cliVars>>

----------------------------------------------------------------------------
(* EmbeddingManager.embed_query and embed_documents                        *)
(* self.embeddings is None when OPENAI_API_KEY had no value at             *)
(* construction.                                                           *)

\* no embed call was made
NoEmbed ==
    [op |-> "none", input |-> <<>>, providerOK |-> TRUE, raised |-> FALSE,
     error |-> "", value |-> <<>>, provider_calls |-> 0]

\* the vector the provider returns for a text
Embedding(t) == <<"embedding", t>>

\* the missing credential reported like a failure of the provider
EmbeddingsUnavailable_as_provider_error ==
    [raised |-> TRUE, error |-> "ProviderError", value |-> <<>>,
     provider_calls |-> 0]

\* raise ValueError("OpenAI API key not available. Cannot create embeddings.")
EmbeddingsUnavailable ==
    [raised |-> TRUE, error |-> "ValueError", value |-> <<>>,
     provider_calls |-> 0]

\* the except branch: the provider's exception is logged and raised again
ProviderFailure ==
    [raised |-> TRUE, error |-> "ProviderError", value |-> <<>>,
     provider_calls |-> 1]

\* has_embeddings: self.embeddings is set; providerOK: the provider answers
embed_query(q, has_embeddings, providerOK) ==
    IF ~ has_embeddings THEN EmbeddingsUnavailable
    ELSE IF ~ providerOK THEN ProviderFailure
    ELSE [raised |-> FALSE, error |-> "", value |-> Embedding(q),
          provider_calls |-> 1]

embed_documents(texts, has_embeddings, providerOK) ==
    IF ~ has_embeddings THEN EmbeddingsUnavailable
    ELSE IF ~ providerOK THEN ProviderFailure
    ELSE [raised |-> FALSE, error |-> "",
          value |-> [i \in 1..Len(texts) |-> Embedding(texts[i])],
          provider_calls |-> 1]

\* the text lists embed_documents is given
EmbedTexts == {"t1", "t2"}
EmbedTextLists ==
    {<<>>} \cup {<<t>> : t \in EmbedTexts}
           \cup {<<t, u>> : t, u \in EmbedTexts}

\* EmbeddingManager.embed_query called on a constructed manager
EmbedQuery ==
    /\ "embedding_manager" \in attrs
    /\ \E q \in Queries, providerOK \in BOOLEAN :
         embed' = [op |-> "embed_query", input |-> q,
                   providerOK |-> providerOK]
                  @@ embed_query(q, "OPENAI_API_KEY" \in env, providerOK)
    /\ UNCHANGED <<ctorVars, rows, askVars, addVars, chunkPc, text, metadata,
                   documents, file_path, unitVars, frontVars>>

\* EmbeddingManager.embed_documents called on a constructed manager
EmbedDocuments ==
    /\ "embedding_manager" \in attrs
    /\ \E texts \in EmbedTextLists, providerOK \in BOOLEAN :
         embed' = [op |-> "embed_documents", input |-> texts,
                   providerOK |-> providerOK]
                  @@ embed_documents(texts, "OPENAI_API_KEY" \in env,
                                     providerOK)
    /\ UNCHANGED <<ctorVars, rows, askVars, addVars, chunkPc, text, metadata,
                   documents, file_path, unitVars, frontVars>>

----------------------------------------------------------------------------
(* EmbeddingManager.process_file called on its own *)

PathNoExt == <<"d", "/", "n">>
PathDotFile == <<".", "e">>
PathTwoDots == <<"a", ".", "b", ".", "c">>

\* the paths process_file is given
ProcessPaths == {PathA, PathE, PathNoExt, PathDotFile, PathTwoDots}

\* the contents the file may have
FileTexts ==
    { <<>>, <<"a">>, <<"a", " ", "a">>,
      <<"a", "a", " ", "a", "a", " ", "a", "a">>,
      <<"a", "a", "a", "a", "a", "a", "a">> }

\* the additional_metadata argument
FileMetadatas ==
    { None,
      <<>>,
      [topic |-> "t"],
      [source |-> "mine"],
      [file_name |-> "n", file_type |-> "x", topic |-> "t"],
      [source |-> "mine", chunk_index |-> 7] }

\* documents = process_file(file_path, additional_metadata); the file
\* holds text, or cannot be read
ProcessFileResult(r) ==
    IF r.raised
    THEN /\ chunkPc' = "file_raised"
         /\ UNCHANGED documents
    ELSE /\ chunkPc' = "file_done"
         /\ documents' = r.documents

ProcessFile ==
    /\ chunkPc \in {"file", "file_unreadable"}
    /\ ProcessFileResult(
          process_file_with_metadata(
              file_path, metadata, [p \in {file_path} |-> text],
              IF chunkPc = "file_unreadable" THEN {file_path} ELSE {}))
    /\ UNCHANGED <<ctorVars, rows, askVars, addVars, text, metadata,
                   file_path, embed, unitVars, frontVars>>

----------------------------------------------------------------------------
(* main.py: main and interactive_chat; streamlit_app.py:                   *)
(* initialize_rag_system                                                   *)

\* required_env_vars as the list main and initialize_rag_system go through
required_vars_list == <<"OPENAI_API_KEY", "SUPABASE_URL", "SUPABASE_KEY">>

\* only the first missing name
missing_vars_first_only(e) ==
    SubSeq(SelectSeq(required_vars_list, LAMBDA v : v \notin e), 1, 1)

\* [var for var in required_env_vars if not os.getenv(var)]
missing_vars(e) == SelectSeq(required_vars_list, LAMBDA v : v \notin e)

\* the message naming the missing variables (print / st.error)
MissingReport(names) == [kind |-> "missing", names |-> names]

\* the message of the except block around RAGSystem()
ErrorReport(error) == [kind |-> "error", names |-> <<error>>]

\* the answer and the document count interactive_chat prints
AnswerReport(result) ==
    [kind |-> "answer", names |-> <<>>, answer |-> result.answer,
     doc_count |-> Len(result.retrieved_docs)]

\* what initialize_rag_system returns when it returns value; main returns
\* nothing
Returned(value) ==
    IF entry = "initialize_rag_system" THEN value ELSE rag_system

\* if missing_vars: report the names and return (None)
ReportOrConstruct(missing) ==
    IF missing # <<>>
    THEN /\ printed' = Append(printed, MissingReport(missing))
         /\ mainPc' = "returned"
         /\ rag_system' = Returned("None")
    ELSE /\ mainPc' = "construct"
         /\ UNCHANGED <<printed, rag_system>>

\* the environment check at the start of main and initialize_rag_system
CheckEnvironment ==
    /\ entry \in {"main", "initialize_rag_system"}
    /\ mainPc = "check"
    /\ ReportOrConstruct(missing_vars(env))
    /\ UNCHANGED <<ctorVars, rows, askVars, addVars, chunkVars, sessions,
                   entry, cliPc, lines, consumed, asked>>

\* RAGSystem() has returned or raised inside the try block.  After a
\* construction that returns, main goes on to setup_sample_data and
\* interactive_chat and initialize_rag_system returns the system.
AfterConstruct ==
    /\ mainPc = "construct"
    /\ Constructed
    /\ IF ctorPc = "raised"
       THEN /\ printed' = Append(printed, ErrorReport(ctorError))
            /\ mainPc' = "failed"
            /\ rag_system' = Returned("None")
       ELSE /\ mainPc' = IF entry = "main" THEN "sample_data" ELSE "returned"
            /\ rag_system' = Returned("RAGSystem")
            /\ UNCHANGED printed
    /\ UNCHANGED <<ctorVars, rows, askVars, addVars, chunkVars, sessions,
                   entry, cliPc, lines, consumed, asked>>

CliThread == "interactive_session"

ExitWords ==
    { <<"l", "o", "p", "e", "t", "a">>, <<"q", "u", "i", "t">>,
      <<"e", "x", "i", "t">> }

\* str.lower on the letters the input lines use
LowerOf ==
    [c \in {"A", "E", "L", "O", "P", "T", "X"} |->
        CASE c = "A" -> "a" [] c = "E" -> "e" [] c = "L" -> "l"
          [] c = "O" -> "o" [] c = "P" -> "p" [] c = "T" -> "t"
          [] c = "X" -> "x"]

Lower(s) ==
    [i \in 1..Len(s) |-> IF s[i] \in DOMAIN LowerOf THEN LowerOf[s[i]]
                          ELSE s[i]]

\* the lines a user may type
InputLines ==
    { <<"q", "u", "i", "t">>,
      <<" ", "E", "x", "i", "t", " ">>,
      <<"L", "O", "P", "E", "T", "A">>,
      <<>>,
      <<" ">>,
      <<" ", "h", "i">>,
      <<"q", "u", "i", "t", "s">> }

\* the sequences of at most n input lines
InputSequences(n) ==
    UNION {[1..k -> InputLines] : k \in 0..n}

\* the loop body without the test for an empty line
Dispatch_no_empty_test(q) ==
    IF Lower(q) \in ExitWords
    THEN /\ cliPc' = "done"
         /\ UNCHANGED asked
    ELSE /\ cliPc' = "ask"
         /\ asked' = Append(asked, q)

\* the body of the loop for the stripped line q
Dispatch(q) ==
    IF Lower(q) \in ExitWords
    THEN /\ cliPc' = "done"
         /\ UNCHANGED asked
    ELSE IF q = <<>>
    THEN /\ cliPc' = "prompt"
         /\ UNCHANGED asked
    ELSE /\ cliPc' = "ask"
         /\ asked' = Append(asked, q)

\* query = input(...).strip() and the two tests that follow
LoopRead ==
    /\ Constructed
    /\ cliPc = "prompt"
    /\ lines # <<>>
    /\ consumed' = Append(consumed, Head(lines))
    /\ lines' = Tail(lines)
    /\ Dispatch(Strip(Head(lines)))
    /\ UNCHANGED <<ctorVars, rows, askVars, addVars, chunkVars, sessions,
                   entry, mainPc, printed, rag_system>>

\* input() at the end of the input raises EOFError, which the
\* except Exception branch reports before the loop prompts again, and so on
LoopEndOfInput ==
    /\ Constructed
    /\ cliPc = "prompt"
    /\ lines = <<>>
    /\ cliPc' = "eof"
    /\ UNCHANGED <<ctorVars, rows, askVars, addVars, chunkVars, sessions,
                   entry, mainPc, printed, rag_system, lines, consumed,
                   asked>>

\* result = rag_system.ask(query, thread_id): the call is entered once
LoopAsk ==
    /\ cliPc = "ask"
    /\ nAsk < Len(asked)
    /\ AskStart(asked[Len(asked)], CliThread)

\* ask has returned: the answer and the document count are printed
LoopPrint ==
    /\ cliPc = "ask"
    /\ nAsk = Len(asked)
    /\ pc = "idle"
    /\ printed' = Append(printed, AnswerReport(ret.value))
    /\ cliPc' = "prompt"
    /\ UNCHANGED <<ctorVars, rows, askVars, addVars, chunkVars, sessions,
                   entry, mainPc, rag_system, lines, consumed, asked>>

\* KeyboardInterrupt at the prompt or during the ask call
LoopInterrupt ==
    /\ Constructed
    /\ cliPc \in {"prompt", "ask"}
    /\ cliPc' = "interrupted"
    /\ UNCHANGED <<ctorVars, rows, askVars, addVars, chunkVars, sessions,
                   entry, mainPc, printed, rag_system, lines, consumed,
                   asked>>

\* the report of the except Exception branch of the loop: the error is
\* logged and the user is told to try again
LoopErrorReport == [kind |-> "loop_error", names |-> <<>>]

RECURSIVE TrailingErrors(_)
\* the number of loop error reports at the end of the output p
TrailingErrors(p) ==
    IF p = <<>> \/ p[Len(p)] # LoopErrorReport THEN 0
    ELSE 1 + TrailingErrors(SubSeq(p, 1, Len(p) - 1))

\* the except Exception branch ending the loop instead of going on
LoopBodyFails_fatal ==
    /\ cliPc = "ask"
    /\ pc = "idle"
    /\ printed' = Append(printed, LoopErrorReport)
    /\ cliPc' = "done"
    /\ asked' = IF nAsk < Len(asked)
                THEN SubSeq(asked, 1, Len(asked) - 1) ELSE asked
    /\ UNCHANGED <<ctorVars, rows, askVars, addVars, chunkVars, sessions,
                   entry, mainPc, rag_system, lines, consumed>>

\* a statement of the loop body outside the ask call (one of the prints)
\* raises an exception other than KeyboardInterrupt, before ask is entered
\* or after it has returned: the except Exception branch reports it and the
\* loop goes on.  A query whose ask call was not entered was not asked.
LoopBodyFails ==
    /\ cliPc = "ask"
    /\ pc = "idle"
    /\ printed' = Append(printed, LoopErrorReport)
    /\ cliPc' = "prompt"
    /\ asked' = IF nAsk < Len(asked)
                THEN SubSeq(asked, 1, Len(asked) - 1) ELSE asked
    /\ UNCHANGED <<ctorVars, rows, askVars, addVars, chunkVars, sessions,
                   entry, mainPc, rag_system, lines, consumed>>

\* the loop ended by the except Exception branch after the EOFError
LoopReprompt_gives_up ==
    /\ cliPc = "eof"
    /\ printed' = Append(printed, LoopErrorReport)
    /\ cliPc' = "done"
    /\ UNCHANGED <<ctorVars, rows, askVars, addVars, chunkVars, sessions,
                   entry, mainPc, rag_system, lines, consumed, asked>>

\* the except Exception branch after the EOFError of input(): the error is
\* reported and the while loop prompts again.  The output keeps at most
\* MaxReprompts of these reports in a row.
LoopReprompt ==
    /\ cliPc = "eof"
    /\ printed' = IF TrailingErrors(printed) < MaxReprompts
                  THEN Append(printed, LoopErrorReport) ELSE printed
    /\ cliPc' = "prompt"
    /\ UNCHANGED <<ctorVars, rows, askVars, addVars, chunkVars, sessions,
                   entry, mainPc, rag_system, lines, consumed, asked>>

\* the lines typed in the runs of the loop with failures
LoopLines ==
    { <<"q", "u", "i", "t">>, <<" ", "h", "i">> }

----------------------------------------------------------------------------
(* Specifications *)

\* neither main nor interactive_chat is running
InitCliOff ==
    /\ entry = "off"
    /\ mainPc = "off"
    /\ printed = <<>>
    /\ rag_system = "unset"
    /\ cliPc = "off"
    /\ lines = <<>>
    /\ consumed = <<>>
    /\ asked = <<>>

\* no front-end is running
InitFrontOff ==
    /\ sessions = [s \in Sessions |-> NoSession]
    /\ InitCliOff

\* no direct similarity_search call made yet
NoSearch ==
    [op |-> "none", query |-> "", k |-> 0, filter |-> <<>>, ranking |-> <<>>,
     embedOK |-> TRUE, rpcOK |-> TRUE, raised |-> FALSE, error |-> "",
     docs |-> <<>>, calls |-> <<>>]

\* the rows a documents table can hold when the retriever is called
SearchRows ==
    { [content |-> <<"a">>, metadata |-> [topic |-> "t", chunk_index |-> 0]],
      [content |-> <<"b">>, metadata |-> [chunk_index |-> 0]],
      [content |-> <<"c">>, metadata |-> [topic |-> "u", chunk_index |-> 1]] }

\* the tables of up to MaxRows different rows, in any insertion order
SearchTables ==
    {t \in UNION {[1..n -> SearchRows] : n \in 0..MaxRows} :
        \A i, j \in DOMAIN t : i # j => t[i] # t[j]}

\* the filter arguments: left out, the empty dict, one key
SearchFilters == {NoFilter, <<>>, [topic |-> "t"]}

\* the k arguments
SearchCounts == {1, 2, RetrieveK}

\* SupabaseManager.similarity_search called on a constructed manager
SimilaritySearch ==
    /\ "supabase_manager" \in attrs
    /\ \E q \in Queries, k \in SearchCounts, filter \in SearchFilters,
          ranking \in Rankings(Len(rows)), embedOK, rpcOK \in BOOLEAN :
         lastSearch' =
             [op |-> "similarity_search", query |-> q, k |-> k,
              filter |-> filter, ranking |-> ranking,
              embedOK |-> embedOK, rpcOK |-> rpcOK]
             @@ similarity_search_filter(q, k, filter, rows, ranking,
                                         embedOK, rpcOK)
    /\ UNCHANGED <<ctorVars, rows, askVars, addVars, chunkPc, text, metadata,
                   documents, file_path, embed, heap, refs, frontVars>>

\* the chunker's caller holds no reference
NoRefs == [caller |-> 0, first |-> <<>>, second |-> <<>>, touched |-> 0]

\* the unit-level calls are not part of the run
InitUnitsOff ==
    /\ lastSearch = NoSearch
    /\ heap = <<>>
    /\ refs = NoRefs

InitSystemWith(threads) ==
    /\ ctorPc = "llm"
    /\ ctorError = ""
    /\ attrs = {}
    /\ rows = <<>>
    /\ pc = "idle"
    /\ query = ""
    /\ thread = ""
    /\ state = initial_state("")
    /\ fails = {}
    /\ calls = <<>>
    /\ ret = NoRet
    /\ checkpoint = [t \in threads |-> <<>>]
    /\ nAsk = 0
    /\ lastAdd = NoAdd @@ AddInputs(TRUE, 0, "embedding", <<>>, {}, 0)
    /\ nAdd = 0

InitSystem == InitSystemWith(Threads)

Init ==
    /\ env \in SUBSET required_env_vars
    /\ clientsOK \in BOOLEAN
    /\ InitSystem
    /\ InitFrontOff
    /\ chunkPc = "off"
    /\ text = <<>>
    /\ metadata = None
    /\ documents = <<>>
    /\ embed = NoEmbed
    /\ InitUnitsOff
    /\ file_path = <<>>

Next ==
    \/ CtorLLM
    \/ CtorSupabaseManager
    \/ CtorEmbeddingManager
    \/ CtorBuildGraph
    \/ CtorInitializeVectorStore
    \/ \E q \in Queries, t \in Threads : AskStart(q, t)
    \/ Retrieve
    \/ Generate
    \/ AskReturn
    \/ GraphInvokeRaises
    \/ AddTextDocument

Spec == Init /\ [][Next]_vars

\* the ingestion entry points on their own
NextIngest ==
    \/ CtorLLM
    \/ CtorSupabaseManager
    \/ CtorEmbeddingManager
    \/ CtorBuildGraph
    \/ CtorInitializeVectorStore
    \/ AddTextDocument
    \/ AddDocumentsFromFiles

SpecIngest == Init /\ [][NextIngest]_vars

InitChunk ==
    /\ env = required_env_vars
    /\ clientsOK = TRUE
    /\ InitSystem
    /\ InitFrontOff
    /\ chunkPc = "input"
    /\ text \in Texts
    /\ metadata \in Metadatas
    /\ documents = <<>>
    /\ embed = NoEmbed
    /\ InitUnitsOff
    /\ file_path = <<>>

NextChunk == SplitTextIntoChunks

SpecChunk == InitChunk /\ [][NextChunk]_vars

\* process_file on its own: any of the paths, any additional metadata
InitFile ==
    /\ env = required_env_vars
    /\ clientsOK = TRUE
    /\ InitSystem
    /\ InitFrontOff
    /\ chunkPc \in {"file", "file_unreadable"}
    /\ file_path \in ProcessPaths
    /\ text \in FileTexts
    /\ metadata \in FileMetadatas
    /\ documents = <<>>
    /\ embed = NoEmbed
    /\ InitUnitsOff

NextFile == ProcessFile

SpecFile == InitFile /\ [][NextFile]_vars

\* an EmbeddingManager constructed on its own, in any environment, and
\* asked for embeddings
InitEmbed ==
    /\ env \in SUBSET required_env_vars
    /\ clientsOK \in BOOLEAN
    /\ ctorPc = "embedding_manager"
    /\ ctorError = ""
    /\ attrs = {}
    /\ rows = <<>>
    /\ pc = "idle"
    /\ query = ""
    /\ thread = ""
    /\ state = initial_state("")
    /\ fails = {}
    /\ calls = <<>>
    /\ ret = NoRet
    /\ checkpoint = [t \in Threads |-> <<>>]
    /\ nAsk = 0
    /\ lastAdd = NoAdd @@ AddInputs(TRUE, 0, "embedding", <<>>, {}, 0)
    /\ nAdd = 0
    /\ InitFrontOff
    /\ chunkPc = "off"
    /\ text = <<>>
    /\ metadata = None
    /\ documents = <<>>
    /\ file_path = <<>>
    /\ embed = NoEmbed
    /\ InitUnitsOff

NextEmbed ==
    \/ CtorEmbeddingManager
    \/ EmbedQuery
    \/ EmbedDocuments

SpecEmbed == InitEmbed /\ [][NextEmbed]_vars

\* a SupabaseManager constructed on its own over a table with rows, and
\* searched
InitSearch ==
    /\ env = required_env_vars
    /\ clientsOK \in BOOLEAN
    /\ ctorPc = "supabase_manager"
    /\ ctorError = ""
    /\ attrs = {}
    /\ rows \in SearchTables
    /\ pc = "idle"
    /\ query = ""
    /\ thread = ""
    /\ state = initial_state("")
    /\ fails = {}
    /\ calls = <<>>
    /\ ret = NoRet
    /\ checkpoint = [t \in Threads |-> <<>>]
    /\ nAsk = 0
    /\ lastAdd = NoAdd @@ AddInputs(TRUE, 0, "embedding", <<>>, {}, 0)
    /\ nAdd = 0
    /\ InitFrontOff
    /\ chunkPc = "off"
    /\ text = <<>>
    /\ metadata = None
    /\ documents = <<>>
    /\ file_path = <<>>
    /\ embed = NoEmbed
    /\ lastSearch = NoSearch
    /\ heap = <<>>
    /\ refs = NoRefs

NextSearch ==
    \/ CtorSupabaseManager
    \/ SimilaritySearch

SpecSearch == InitSearch /\ [][NextSearch]_vars

\* the chunker called twice by a caller that holds its metadata dict and
\* changes a returned one in between
InitAlias ==
    /\ env = required_env_vars
    /\ clientsOK = TRUE
    /\ InitSystem
    /\ InitFrontOff
    /\ chunkPc = "alias_input"
    /\ text \in AliasTexts
    /\ metadata \in Metadatas
    /\ documents = <<>>
    /\ file_path = <<>>
    /\ embed = NoEmbed
    /\ lastSearch = NoSearch
    /\ heap = IF metadata = None THEN <<>> ELSE <<metadata>>
    /\ refs = [NoRefs EXCEPT !.caller = IF metadata = None THEN 0 ELSE 1]

NextAlias ==
    \/ SplitFirst
    \/ TouchChunk
    \/ SplitSecond

SpecAlias == InitAlias /\ [][NextAlias]_vars

\* two web sessions asking through the one cached RAGSystem
InitSessions ==
    /\ env = required_env_vars
    /\ clientsOK = TRUE
    /\ InitSystemWith({StreamlitThread})
    /\ InitFrontOff
    /\ chunkPc = "off"
    /\ text = <<>>
    /\ metadata = None
    /\ documents = <<>>
    /\ embed = NoEmbed
    /\ InitUnitsOff
    /\ file_path = <<>>

NextSessions ==
    \/ CtorLLM
    \/ CtorSupabaseManager
    \/ CtorEmbeddingManager
    \/ CtorBuildGraph
    \/ CtorInitializeVectorStore
    \/ \E s \in Sessions : SessionAsk(s)
    \/ \E s \in Sessions : SessionRetrieve(s)
    \/ \E s \in Sessions : SessionGenerate(s)
    \/ \E s \in Sessions : SessionReturn(s)
    \/ \E s \in Sessions : SessionInvokeRaises(s)

SpecSessions == InitSessions /\ [][NextSessions]_vars

\* the front-ends: main or initialize_rag_system started in some
\* environment, or interactive_chat called on a system with some input
InitFront ==
    /\ entry \in {"main", "initialize_rag_system", "interactive_chat"}
    /\ IF entry = "interactive_chat"
       THEN /\ env = required_env_vars
            /\ clientsOK = TRUE
            /\ mainPc = "off"
            /\ cliPc = "prompt"
            /\ lines \in InputSequences(MaxLines)
       ELSE /\ env \in SUBSET required_env_vars
            /\ clientsOK \in BOOLEAN
            /\ mainPc = "check"
            /\ cliPc = "off"
            /\ lines = <<>>
    /\ InitSystemWith({CliThread})
    /\ sessions = [s \in Sessions |-> NoSession]
    /\ printed = <<>>
    /\ rag_system = "unset"
    /\ consumed = <<>>
    /\ asked = <<>>
    /\ chunkPc = "off"
    /\ text = <<>>
    /\ metadata = None
    /\ documents = <<>>
    /\ embed = NoEmbed
    /\ InitUnitsOff
    /\ file_path = <<>>

\* RAGSystem() is running: called by main or initialize_rag_system, or by
\* the caller of interactive_chat beforehand
Constructing == mainPc = "construct" \/ entry = "interactive_chat"

NextFront ==
    \/ CheckEnvironment
    \/ Constructing /\ CtorLLM
    \/ Constructing /\ CtorSupabaseManager
    \/ Constructing /\ CtorEmbeddingManager
    \/ Constructing /\ CtorBuildGraph
    \/ Constructing /\ CtorInitializeVectorStore
    \/ AfterConstruct
    \/ LoopRead
    \/ LoopEndOfInput
    \/ LoopAsk
    \/ cliPc = "ask" /\ Retrieve
    \/ cliPc = "ask" /\ Generate
    \/ cliPc = "ask" /\ AskReturn
    \/ cliPc = "ask" /\ GraphInvokeRaises
    \/ LoopPrint
    \/ LoopInterrupt

SpecFront == InitFront /\ [][NextFront]_vars

\* interactive_chat with the failures its except Exception branch absorbs
InitLoop ==
    /\ entry = "interactive_chat"
    /\ env = required_env_vars
    /\ clientsOK = TRUE
    /\ mainPc = "off"
    /\ cliPc = "prompt"
    /\ lines \in UNION {[1..n -> LoopLines] : n \in 0..MaxLines}
    /\ ctorPc = "llm"
    /\ ctorError = ""
    /\ attrs = {}
    /\ rows = <<>>
    /\ pc = "idle"
    \* no query yet: the queries of the loop are the stripped lines
    /\ query = <<>>
    /\ thread = ""
    /\ state = initial_state(<<>>)
    /\ fails = {}
    /\ calls = <<>>
    /\ ret = NoRet
    /\ checkpoint = [t \in {CliThread} |-> <<>>]
    /\ nAsk = 0
    /\ lastAdd = NoAdd @@ AddInputs(TRUE, 0, "embedding", <<>>, {}, 0)
    /\ nAdd = 0
    /\ sessions = [s \in Sessions |-> NoSession]
    /\ printed = <<>>
    /\ rag_system = "unset"
    /\ consumed = <<>>
    /\ asked = <<>>
    /\ chunkPc = "off"
    /\ text = <<>>
    /\ metadata = None
    /\ documents = <<>>
    /\ file_path = <<>>
    /\ embed = NoEmbed
    /\ InitUnitsOff

NextLoop ==
    \/ CtorLLM
    \/ CtorSupabaseManager
    \/ CtorEmbeddingManager
    \/ CtorBuildGraph
    \/ CtorInitializeVectorStore
    \/ LoopRead
    \/ LoopEndOfInput
    \/ LoopReprompt
    \/ LoopAsk
    \/ cliPc = "ask" /\ Retrieve
    \/ cliPc = "ask" /\ Generate
    \/ cliPc = "ask" /\ AskReturn
    \/ cliPc = "ask" /\ GraphInvokeRaises
    \/ LoopPrint
    \/ LoopBodyFails
    \/ LoopInterrupt

SpecLoop == InitLoop /\ [][NextLoop]_vars

\* the process keeps running: input() at the end of the input does raise,
\* and the except branch does return to the head of the while loop
SpecLoopFair ==
    /\ SpecLoop
    /\ WF_vars(LoopEndOfInput)
    /\ WF_vars(LoopReprompt)

----------------------------------------------------------------------------
(* Properties of RAGSystem.ask *)

\* an ask call has returned to its caller (or raised)
AskDone == pc = "idle" /\ nAsk > 0

\* C1: whatever fails (embedding provider, document store, completion
\* provider, the graph execution), ask returns, never raises, a record with
\* exactly the keys query, answer, retrieved_docs and context whose query is
\* the query it was given.
C1_AskReturnsQueryResult ==
    AskDone =>
        /\ ret.raised = FALSE
        /\ DOMAIN ret.value = ResultKeys
        /\ ret.value.query = query

\* an ask in which the store, the completion provider and the graph
\* execution all failed has returned
C1_Witness ==
    /\ AskDone
    /\ {"store", "completion", "graph"} \subseteq fails
    /\ ret.value.query = "q2"

\* C2: with the three environment variables set and the external clients
\* constructible, RAGSystem.__init__ does not raise.
C2_ConstructionCompletes ==
    (env = required_env_vars /\ clientsOK) => ctorPc # "raised"

C5_EmptyRetrievalUsesSentinel ==
    /\ \A i \in DOMAIN calls :
          calls[i].op = "llm" => calls[i].context # <<>>
    /\ (AskDone /\ fails = {} /\ ret.value.retrieved_docs = <<>>) =>
          ret.value.context = NoDocumentsContext

\* C8: for a non-empty sequence of retrieved documents the context consists
\* of the blocks "Document i:\n<content i>\n", i = 1..n in the order of
\* retrieved_docs, with exactly one "\n" between consecutive blocks.

\* the length of block number i and the position where it starts
BlockLen(docs, i) == 4 + Len(docs[i].page_content) + 1

RECURSIVE BlockStart(_, _)
BlockStart(docs, i) ==
    IF i = 1 THEN 1 ELSE BlockStart(docs, i - 1) + BlockLen(docs, i - 1) + 1

\* block number i with content c starts at position b of ctx and, unless
\* it is the last one, is followed by one line break
BlockAt(ctx, b, i, c, last) ==
    /\ ctx[b] = "Document "
    /\ ctx[b + 1] = ToString(i)
    /\ ctx[b + 2] = ":"
    /\ ctx[b + 3] = "\n"
    /\ \A j \in 1..Len(c) : ctx[b + 3 + j] = c[j]
    /\ ctx[b + 4 + Len(c)] = "\n"
    /\ ~ last => ctx[b + 5 + Len(c)] = "\n"

ContextHasBlocks(ctx, docs) ==
    /\ Len(ctx) = BlockStart(docs, Len(docs)) + BlockLen(docs, Len(docs)) - 1
    /\ \A i \in 1..Len(docs) :
          BlockAt(ctx, BlockStart(docs, i), i, docs[i].page_content,
                  i = Len(docs))

C8_ContextBlocksInOrder ==
    /\ (pc \in {"generate", "finish"} /\ fails = {}
            /\ state.retrieved_docs # <<>>) =>
          ContextHasBlocks(state.context, state.retrieved_docs)
    /\ (AskDone /\ "graph" \notin fails /\ ret.value.retrieved_docs # <<>>) =>
          ContextHasBlocks(ret.value.context, ret.value.retrieved_docs)

C8_Witness ==
    /\ AskDone
    /\ fails = {}
    /\ Len(ret.value.retrieved_docs) >= 2
    /\ ret.value.retrieved_docs[1].page_content
          # ret.value.retrieved_docs[2].page_content
    /\ ret.value.retrieved_docs[1].page_content = rows[2].content

----------------------------------------------------------------------------
(* Properties of the ingestion entry points *)

AddDone == lastAdd.op # ""

C7_FileFailureIsTotalFailure ==
    (lastAdd.op = "add_documents_from_files" /\ lastAdd.skipped > 0) =>
        lastAdd.value = FALSE

\* the chunks of the files of the call that can be read and split
RECURSIVE ProcessableChunks(_, _)
ProcessableChunks(file_paths, broken) ==
    IF file_paths = <<>> THEN 0
    ELSE (IF Head(file_paths) \in DOMAIN FileSystem
                /\ Head(file_paths) \notin broken
          THEN Len(split_text(FileSystem[Head(file_paths)])) ELSE 0)
         + ProcessableChunks(Tail(file_paths), broken)

\* C7 amended: add_documents_from_files skips a file that cannot be read or
\* processed and goes on with the chunks of the other files.  It returns
\* False only when no chunk was produced from any file or an embedding or
\* insert call fails; otherwise it returns True, also when files were
\* skipped.
C7_FailedFilesAreSkipped ==
    (lastAdd.op = "add_documents_from_files"
        /\ {"embedding_manager", "supabase_manager"} \subseteq attrs) =>
        /\ lastAdd.chunks =
              ProcessableChunks(lastAdd.file_paths, lastAdd.broken)
        /\ lastAdd.value = (lastAdd.chunks > 0 /\ lastAdd.failAt = 0)

C7_Witness ==
    /\ lastAdd.op = "add_documents_from_files"
    /\ lastAdd.skipped = 1
    /\ lastAdd.files = 2
    /\ lastAdd.value = TRUE
    /\ lastAdd.inserted = 2

----------------------------------------------------------------------------
(* Properties of split_text_into_chunks *)

ChunkDone == chunkPc = "done"

\* the caller's mapping, {} when it was left out
SourceMetadata == IF metadata = None THEN <<>> ELSE metadata

\* C9: the chunk_index values of the chunks of one call are 0..n-1 in output
\* order, total_chunks is n in every chunk, n being the number of chunks
\* returned, and total_chunks >= 1 whenever there is a chunk.
C9_ChunkIndexEnumerates ==
    ChunkDone =>
        \A i \in 1..Len(documents) :
            /\ documents[i].metadata["chunk_index"] = i - 1
            /\ documents[i].metadata["total_chunks"] = Len(documents)
            /\ documents[i].metadata["total_chunks"] >= 1

C9_Witness ==
    /\ ChunkDone
    /\ Len(documents) >= 3
    /\ "chunk_index" \in DOMAIN SourceMetadata

\* token_count = floor(len(page_content) / 4)
TokenCountIsFloor(doc) ==
    /\ 4 * doc.metadata["token_count"] <= Len(doc.page_content)
    /\ Len(doc.page_content) < 4 * doc.metadata["token_count"] + 4

\* C10 as stated: every chunk's metadata has every key of the source
\* metadata with the source's value, plus chunk_index, total_chunks and
\* token_count = floor(len(content) / 4), also when the source metadata has
\* a key of one of these three names.
C10_MetadataKeepsEverySourceValue ==
    ChunkDone =>
        \A i \in 1..Len(documents) :
            /\ DOMAIN documents[i].metadata
                  = DOMAIN SourceMetadata \cup ChunkKeys
            /\ \A k \in DOMAIN SourceMetadata :
                  documents[i].metadata[k] = SourceMetadata[k]
            /\ TokenCountIsFloor(documents[i])

\* C10 amended: every chunk's metadata has every key of the source metadata
\* other than chunk_index, total_chunks and token_count with the source's
\* value, plus these three keys with the chunk's own values, token_count
\* being floor(len(content) / 4); a source value under one of the three
\* names is overwritten.
C10_MetadataKeepsOtherSourceValues ==
    ChunkDone =>
        \A i \in 1..Len(documents) :
            /\ DOMAIN documents[i].metadata
                  = DOMAIN SourceMetadata \cup ChunkKeys
            /\ \A k \in DOMAIN SourceMetadata \ ChunkKeys :
                  documents[i].metadata[k] = SourceMetadata[k]
            /\ documents[i].metadata["chunk_index"] = i - 1
            /\ documents[i].metadata["total_chunks"] = Len(documents)
            /\ TokenCountIsFloor(documents[i])

C10_Witness ==
    /\ ChunkDone
    /\ "token_count" \in DOMAIN SourceMetadata
    /\ \E i \in 1..Len(documents) :
          /\ Len(documents[i].page_content) = 5
          /\ documents[i].metadata["token_count"] = 1
          /\ SourceMetadata["token_count"] # 1

----------------------------------------------------------------------------
(* Properties of the text splitter *)

\* a string none of the configured separators can split any further
AtomicUnit(s) ==
    \A k \in 1..Len(separators) :
        separators[k] # <<>> /\ ~ Contains(s, separators[k])

\* C11: every chunk the chunker produces is at most chunk_size characters
\* long, unless the chunk is a single unit that no configured separator
\* can split
C11_ChunkLengthAtMostChunkSize ==
    ChunkDone =>
        \A i \in 1..Len(documents) :
            \/ Len(documents[i].page_content) <= ChunkSize
            \/ AtomicUnit(documents[i].page_content)

\* a text longer than chunk_size without any whitespace is cut between
\* characters, giving a chunk of exactly chunk_size characters
C11_Witness ==
    /\ ChunkDone
    /\ Len(text) > ChunkSize
    /\ \A j \in 1..Len(text) : text[j] \notin Whitespace
    /\ Len(documents) >= 2
    /\ Len(documents[1].page_content) = ChunkSize

----------------------------------------------------------------------------
(* Properties of the conversation threads *)

\* the last two messages of a history
LastPair(h) == SubSeq(h, Len(h) - 1, Len(h))

\* the pair of messages an ask call with query q and answer a stands for
AskPair(q, a) == <<HumanMessage(q), AIMessage(a)>>

\* C12 as stated: every ask call that has returned (on a system whose graph
\* was built) has appended its query and the answer it returned to the
\* history of its thread
C12_EveryAskAppendsItsPair ==
    AskDone /\ "graph" \in attrs =>
        /\ Len(checkpoint[thread]) >= 2
        /\ LastPair(checkpoint[thread]) = AskPair(query, ret.value.answer)

\* C12 amended: the history of a thread changes only when the generate
\* stage of an ask call made with that thread finishes, and then by
\* appending the call's query and the generated answer (or the generation
\* apology); that pair is the one the call returns unless it ends in the
\* fallback of ask, and a call whose generate stage never ran appends
\* nothing
C12_HistoryGrowsByGeneratedPairs ==
    /\ [](AskDone /\ "graph" \notin fails =>
            /\ Len(checkpoint[thread]) >= 2
            /\ LastPair(checkpoint[thread])
                  = AskPair(query, ret.value.answer))
    /\ [][\A t \in Threads :
            IF pc = "generate" /\ pc' = "finish" /\ t = thread
            THEN checkpoint'[t]
                   = checkpoint[t] \o AskPair(query, state'.answer)
            ELSE checkpoint'[t] = checkpoint[t]]_vars

\* two calls on one thread, the second with a failed completion: the
\* thread holds both pairs and the other thread holds nothing
C12_Witness ==
    /\ AskDone
    /\ nAsk = 2
    /\ fails = {"completion"}
    /\ Len(checkpoint[thread]) = 4
    /\ LastPair(checkpoint[thread]) = AskPair(query, GenerateErrorAnswer)
    /\ \A t \in Threads \ {thread} : checkpoint[t] = <<>>

\* the channels of the graph state an ask call returns
ResultChannels(st) ==
    [query |-> st.query, retrieved_docs |-> st.retrieved_docs,
     context |-> st.context, answer |-> st.answer]

\* what the retrieve stage makes of a search outcome, as seen in the graph
\* state st and the calls cs
RetrievedFrom(st, cs, search) ==
    /\ st.retrieved_docs = retrieve_documents(search).retrieved_docs
    /\ st.context = retrieve_documents(search).context
    /\ cs = search.calls

\* the run starts from empty result channels whatever the thread holds
StartsFromInput ==
    /\ ResultChannels(state') = ResultChannels(initial_state(query'))
    /\ calls' = <<>>

\* the retrieve stage searches the rows of the store with the query
RetrievesFromStore ==
    /\ \E embedOK, rpcOK \in BOOLEAN, ranking \in Rankings(Len(rows)) :
          RetrievedFrom(state', calls',
                        similarity_search(query, RetrieveK, rows, ranking,
                                          embedOK, rpcOK))
    /\ state'.query = query
    /\ state'.answer = ""

\* the completion is called with exactly the query and the retrieved context
GeneratesFromContext ==
    /\ calls' = Append(calls, LLMCall(query, state.context))
    /\ state'.answer \in LLMAnswers \cup {GenerateErrorAnswer}
    /\ state'.retrieved_docs = state.retrieved_docs
    /\ state'.context = state.context

\* C13: thread_id and the history of the thread have no effect on retrieval
\* or generation.  Every stage of an ask call computes its part of the
\* result from the query, the rows of the store and the providers'
\* behaviour alone, and the call returns the channels so computed.
C13_ThreadHasNoEffectOnResult ==
    [][/\ (pc = "idle" /\ pc' = "retrieve") => StartsFromInput
       /\ (pc = "retrieve" /\ pc' = "generate") => RetrievesFromStore
       /\ (pc = "generate" /\ pc' = "finish") => GeneratesFromContext
       /\ (pc = "finish" /\ pc' = "idle" /\ "graph" \notin fails') =>
              ret'.value = ResultChannels(state)]_vars

\* a second call on a thread that already holds the pair of a call with
\* another query and another answer returns documents and the
\* completion's answer
C13_Witness ==
    /\ AskDone
    /\ nAsk = 2
    /\ fails = {}
    /\ Len(checkpoint[thread]) = 4
    /\ checkpoint[thread][1].content # query
    /\ checkpoint[thread][2].content # ret.value.answer
    /\ ret.value.retrieved_docs # <<>>

----------------------------------------------------------------------------
(* Properties of concurrent web sessions *)

\* the messages of a history that session s did not write
ForeignMessages(s, h) ==
    {i \in 1..Len(h) : h[i].role = "human" /\ h[i].content # Prompt[s]}

\* C14: concurrent ask calls of different callers are independent: the
\* conversational state an ask call of one session runs on never holds a
\* message written by the ask call of another session
C14_SessionsShareNoConversationState ==
    \A s \in Sessions : ForeignMessages(s, sessions[s].state.messages) = {}

----------------------------------------------------------------------------
(* Properties of the front-ends *)

\* C15: when a required variable is unset, main and initialize_rag_system
\* report exactly the missing names and stop: RAGSystem is not constructed,
\* nothing is ingested, the interactive loop is not entered, and
\* initialize_rag_system returns no system
C15_MissingConfigurationStopsStartup ==
    (/\ entry \in {"main", "initialize_rag_system"}
     /\ mainPc # "check"
     /\ required_env_vars \ env # {}) =>
        /\ mainPc = "returned"
        /\ Len(printed) = 1
        /\ printed[1].kind = "missing"
        /\ Range(printed[1].names) = required_env_vars \ env
        /\ Len(printed[1].names) = Cardinality(required_env_vars \ env)
        /\ ctorPc = "llm" /\ attrs = {}
        /\ nAdd = 0 /\ rows = <<>>
        /\ cliPc = "off" /\ nAsk = 0
        /\ entry = "initialize_rag_system" => rag_system = "None"

\* main has stopped after reporting two missing names
C15_Witness ==
    /\ entry = "main"
    /\ mainPc = "returned"
    /\ Cardinality(required_env_vars \ env) = 2
    /\ Len(printed) = 1
    /\ Len(printed[1].names) = 2

\* the line is an exit word after trimming, whatever its case
IsExitLine(line) == Lower(Strip(line)) \in ExitWords

\* the trimmed lines of ls that are neither empty nor an exit word
QueriesOf(ls) ==
    SelectSeq([i \in 1..Len(ls) |-> Strip(ls[i])],
              LAMBDA q : q # <<>> /\ Lower(q) \notin ExitWords)

\* C16: in the CLI loop (not interrupted from the keyboard) an exit word
\* ends the loop at once, so it is the last line read and no ask call is
\* made for it; an empty line makes no ask call and the loop prompts again;
\* every other line read is passed to ask, trimmed, exactly once, so the
\* number of ask calls is the number of non-empty non-exit lines read
C16_LoopAsksOncePerQueryLine ==
    (entry = "interactive_chat" /\ cliPc # "interrupted") =>
        /\ \A i \in 1..Len(consumed) :
              IsExitLine(consumed[i]) => i = Len(consumed) /\ cliPc = "done"
        /\ cliPc = "done" =>
              consumed # <<>> /\ IsExitLine(consumed[Len(consumed)])
        /\ asked = QueriesOf(consumed)
        /\ cliPc \in {"prompt", "done", "eof"} => nAsk = Len(asked)
        /\ cliPc = "ask" => nAsk \in {Len(asked) - 1, Len(asked)}
        /\ (consumed # <<>> /\ Strip(consumed[Len(consumed)]) = <<>>) =>
              cliPc \in {"prompt", "eof"}

\* an empty line, a query and an exit word in capitals between blanks: the
\* loop has ended after one ask call
C16_Witness ==
    /\ entry = "interactive_chat"
    /\ cliPc = "done"
    /\ Len(consumed) = 3
    /\ Strip(consumed[1]) = <<>>
    /\ consumed[3] = <<" ", "E", "x", "i", "t", " ">>
    /\ asked = << <<"h", "i">> >>
    /\ nAsk = 1

----------------------------------------------------------------------------
(* Properties of process_file *)

FileKeys == {"source", "file_name", "file_type"}

\* name is the part of path after its last "/"
IsBaseName(path, name) ==
    \E k \in 0..Len(path) :
        /\ name = SubSeq(path, k + 1, Len(path))
        /\ \A j \in 1..Len(name) : name[j] # "/"
        /\ k = 0 \/ path[k] = "/"

\* ext is the extension of name: the part from its last dot on, or nothing
\* when name has no dot after a character other than a dot
IsExtension(name, ext) ==
    \E k \in 0..Len(name) :
        /\ ext = SubSeq(name, k + 1, Len(name))
        /\ IF ext = <<>>
           THEN \A j \in 1..Len(name) :
                   name[j] = "." => \A h \in 1..(j - 1) : name[h] = "."
           ELSE /\ ext[1] = "."
                /\ \A j \in 2..Len(ext) : ext[j] # "."
                /\ \E h \in 1..k : name[h] # "."

\* the metadata m of a chunk of the file: the three file keys, the caller's
\* keys and the chunk keys; the caller's values kept, also under a file key
CarriesFileMetadata(m) ==
    /\ DOMAIN m = FileKeys \cup DOMAIN SourceMetadata \cup ChunkKeys
    /\ \A k \in DOMAIN SourceMetadata \ ChunkKeys : m[k] = SourceMetadata[k]
    /\ "source" \notin DOMAIN SourceMetadata => m["source"] = file_path
    /\ "file_name" \notin DOMAIN SourceMetadata =>
          IsBaseName(file_path, m["file_name"])
    /\ "file_type" \notin DOMAIN SourceMetadata =>
          \E k \in 0..Len(file_path) :
              /\ IsBaseName(file_path, SubSeq(file_path, k + 1, Len(file_path)))
              /\ IsExtension(SubSeq(file_path, k + 1, Len(file_path)),
                             m["file_type"])

\* C17: every chunk of a file processed by path carries source = the path,
\* file_name = its base name and file_type = its extension, merged with the
\* caller's metadata, the caller's value winning under each of these keys
C17_ChunksCarryFileMetadata ==
    chunkPc = "file_done" =>
        \A i \in 1..Len(documents) :
            CarriesFileMetadata(documents[i].metadata)

\* a file in a directory with two chunks, the caller giving its own source
C17_Witness ==
    /\ chunkPc = "file_done"
    /\ file_path = PathA
    /\ Len(documents) >= 2
    /\ metadata = [source |-> "mine", chunk_index |-> 7]
    /\ documents[2].metadata["source"] = "mine"
    /\ documents[2].metadata["file_name"] = <<"a", ".", "t">>
    /\ documents[2].metadata["file_type"] = <<".", "t">>

----------------------------------------------------------------------------
(* Properties of embed_query and embed_documents *)

----------------------------------------------------------------------------
(* C19 *)

\* the embedding request similarity_search makes first for query q
IsEmbedRequest(c, q) == c.op = "embed_query" /\ c.query = q

\* the store search for query q with match_count 4 and no filter
IsSearchRequest(c, q) ==
    /\ c.op = "match_documents"
    /\ c.query = q
    /\ c.k = 4
    /\ c.filter = <<>>

\* the completion request for query q over context ctx
IsCompletionRequest(c, q, ctx) ==
    c.op = "llm" /\ c.query = q /\ c.context = ctx

\* cs is one invocation of the retriever for q: the embedding request,
\* followed by the one store search unless the embedding failed
OneRetrieval(cs, q) ==
    /\ Len(cs) \in {1, 2}
    /\ IsEmbedRequest(cs[1], q)
    /\ Len(cs) = 2 => IsSearchRequest(cs[2], q)
    /\ Len(cs) = 1 <=> "embedding" \in fails

\* the context channel holds what the retrieve stage of this ask produced
HoldsRetrievedContext ==
    state.context = IF fails \cap {"embedding", "store"} # {}
                    THEN NoDocumentsContext
                    ELSE AssembleContext(state.retrieved_docs)

\* cs is one invocation of the retriever for q followed by one completion
\* request for q over the context channel
RetrievalThenGeneration(cs, q) ==
    /\ Len(cs) \in {2, 3}
    /\ OneRetrieval(SubSeq(cs, 1, Len(cs) - 1), q)
    /\ IsCompletionRequest(cs[Len(cs)], q, state.context)

----------------------------------------------------------------------------
(* C20 *)

\* the failures of the retrieve stage: the embedding request or the search
RetrievalFailures == {"embedding", "store"}

\* the completion provider has been called in the current ask
GeneratorInvoked == \E i \in 1..Len(calls) : calls[i].op = "llm"

PipelineMoves ==
    {<<"idle", "retrieve">>, <<"retrieve", "generate">>,
     <<"generate", "finish">>, <<"finish", "idle">>,
     <<"retrieve", "idle">>, <<"generate", "idle">>}

\* one step of the pipeline under the amended statement
PipelineStep ==
    /\ pc' # pc => <<pc, pc'>> \in PipelineMoves
    \* the retrieve stage absorbs its failure and hands over to generate
    /\ (pc = "retrieve" /\ "graph" \notin fails') =>
          /\ pc' = "generate"
          /\ fails' \cap RetrievalFailures # {} =>
                /\ state'.retrieved_docs = <<>>
                /\ state'.context = NoDocumentsContext
    \* the generate stage calls the provider whatever the retrieval did
    /\ (pc = "generate" /\ "graph" \notin fails') =>
          /\ pc' = "finish"
          /\ calls' = Append(calls, LLMCall(query, state.context))
    \* the error result is returned exactly when graph.invoke raised
    /\ (pc # "idle" /\ pc' = "idle") =>
          /\ ret'.raised = FALSE
          /\ ("graph" \in fails') <=> (ret' = ask_except(query))
          /\ ("graph" \notin fails') => (ret' = ask_return(query, state))

----------------------------------------------------------------------------
(* C21 *)

\* what the store's procedure answers to the last direct search
StoreAnswer ==
    match_documents_filter(rows, lastSearch.ranking, lastSearch.k,
                           FilterParam(lastSearch.filter))

\* the number of requests of kind op among cs
CountOp(cs, op) == Cardinality({i \in 1..Len(cs) : cs[i].op = op})

\* docs are the rows of data, one document per row, in the same order
KeepsRowOrder(docs, data) ==
    /\ Len(docs) = Len(data)
    /\ \A i \in 1..Len(data) :
          /\ docs[i].page_content = data[i].content
          /\ docs[i].metadata = data[i].metadata

\* C21: similarity_search makes exactly one embedding request for the
\* query and then at most one request to the store's match procedure; when
\* either request fails it makes no further request and raises the error of
\* the failed request; when the store answers it returns one document per
\* returned row in the store's order, the empty sequence for zero rows.
C21_SearchCallsOnceAndPropagates ==
    lastSearch.op # "none" =>
        /\ lastSearch.calls[1] = EmbedCall(lastSearch.query)
        /\ CountOp(lastSearch.calls, "embed_query") = 1
        /\ CountOp(lastSearch.calls, "match_documents") <= 1
        /\ Len(lastSearch.calls) =
              1 + CountOp(lastSearch.calls, "match_documents")
        /\ ~ lastSearch.embedOK =>
              /\ lastSearch.raised
              /\ lastSearch.error = "embedding"
              /\ Len(lastSearch.calls) = 1
        /\ (lastSearch.embedOK /\ ~ lastSearch.rpcOK) =>
              /\ lastSearch.raised
              /\ lastSearch.error = "store"
              /\ Len(lastSearch.calls) = 2
        /\ (lastSearch.embedOK /\ lastSearch.rpcOK) =>
              /\ ~ lastSearch.raised
              /\ Len(lastSearch.calls) = 2
              /\ KeepsRowOrder(lastSearch.docs, StoreAnswer)
              /\ StoreAnswer = <<>> => lastSearch.docs = <<>>

\* a search over a table of three rows whose ranking differs from the
\* insertion order has returned two documents
C21_Witness ==
    /\ lastSearch.op = "similarity_search"
    /\ ~ lastSearch.raised
    /\ Len(rows) = 3
    /\ lastSearch.ranking[1] = 3
    /\ Len(lastSearch.docs) = 2
    /\ lastSearch.docs[1].page_content = rows[3].content
    /\ lastSearch.docs[1] # lastSearch.docs[2]

----------------------------------------------------------------------------
(* C22 *)

\* the step in which the except Exception branch reports a failure of the
\* body of the loop for a query
BodyFailureReported ==
    /\ cliPc = "ask"
    /\ printed' = Append(printed, LoopErrorReport)

\* what the loop does with the line it reads next
UsualOutcome(line) ==
    IF IsExitLine(line) THEN "done"
    ELSE IF Strip(line) = <<>> THEN "prompt"
    ELSE "ask"

\* the step that reads a line treats it by its content alone
ReadsAsUsual ==
    consumed' # consumed =>
        /\ cliPc = "prompt"
        /\ consumed' = Append(consumed, Head(lines))
        /\ lines' = Tail(lines)
        /\ cliPc' = UsualOutcome(Head(lines))
        /\ asked' = IF cliPc' = "ask"
                    THEN Append(asked, Strip(Head(lines))) ELSE asked
        /\ printed' = printed

\* C22: an exception other than a keyboard interrupt raised while the loop
\* handles a query is reported and ends neither the loop nor the program:
\* the loop is back at its prompt with the unread lines untouched and the
\* conversation history as the ask call left it, and every line read
\* afterwards is treated as usual (an exit word ends the loop, an empty line
\* prompts again, any other line is asked).
C22_QueryErrorIsNotFatal ==
    [][/\ BodyFailureReported =>
             /\ cliPc' = "prompt"
             /\ lines' = lines
             /\ consumed' = consumed
             /\ checkpoint' = checkpoint
             /\ nAsk' = nAsk
       /\ ReadsAsUsual
       /\ (cliPc' = "done" /\ cliPc # "done") =>
             (cliPc = "prompt" /\ lines # <<>> /\ IsExitLine(Head(lines)))
      ]_vars

\* the handling of a first query failed after its ask call had returned; the
\* second query has been read, asked and answered
C22_Witness ==
    /\ entry = "interactive_chat"
    /\ cliPc = "prompt"
    /\ Len(consumed) = 2
    /\ Len(printed) = 2
    /\ printed[1] = LoopErrorReport
    /\ printed[2].kind = "answer"
    /\ nAsk = 2
    /\ Len(asked) = 2

----------------------------------------------------------------------------
(* C26 *)

\* the input is exhausted and the loop is prompting or handling the
\* EOFError of input()
AtEndOfInput == lines = <<>> /\ cliPc \in {"prompt", "eof"}

\* at the end of the input the loop only goes round or is interrupted, and
\* no ask call is made
EndOfInputStep ==
    AtEndOfInput =>
        /\ cliPc' \in {"prompt", "eof", "interrupted"}
        /\ lines' = <<>>
        /\ asked' = asked
        /\ nAsk' = nAsk
        /\ pc' = "idle"

\* the loop ends only by an exit word read at the prompt
EndsOnlyOnExitWord ==
    (cliPc' = "done" /\ cliPc # "done") =>
        (cliPc = "prompt" /\ lines # <<>> /\ IsExitLine(Head(lines)))

\* C26: interactive_chat ends only when an exit word is read or on a
\* keyboard interrupt.  When input() fails at the end of the input the
\* exception is caught, no ask call is made, and unless a keyboard interrupt
\* arrives the loop prompts again and fails again for ever.
C26_EndOfInputLoopsForever ==
    /\ [][EndOfInputStep /\ EndsOnlyOnExitWord]_vars
    /\ (Constructed /\ lines = <<>> /\ cliPc = "prompt") ~>
           (cliPc = "eof" \/ cliPc = "interrupted")
    /\ (cliPc = "eof") ~> (cliPc = "prompt" /\ lines = <<>>)

\* after one answered query the input has ended and the loop has reported
\* the failure of input() MaxReprompts times and is prompting once more
C26_Witness ==
    /\ entry = "interactive_chat"
    /\ cliPc = "prompt"
    /\ lines = <<>>
    /\ Len(consumed) = 1
    /\ nAsk = 1
    /\ TrailingErrors(printed) = MaxReprompts
    /\ Len(printed) = MaxReprompts + 1
    /\ printed[1].kind = "answer"

----------------------------------------------------------------------------
(* C23 *)

\* the dict objects rs are pairwise different objects, and none of them is
\* the caller's object or one of others
OwnObjects(rs, others) ==
    /\ \A i, j \in 1..Len(rs) : i # j => rs[i] # rs[j]
    /\ \A i \in 1..Len(rs) : rs[i] # refs.caller /\ rs[i] \notin others

\* C23: split_text_into_chunks leaves the caller's metadata mapping as it
\* was; every returned chunk has a metadata dict of its own, so that a key
\* set in one of them changes neither the caller's mapping nor the metadata
\* of another chunk nor the result of a later call; and a second call with
\* the same text and metadata returns chunks equal to those of the first.
C23_ChunkerHasNoSideEffects ==
    chunkPc \in {"alias_first", "alias_second"} =>
        /\ refs.caller # 0 => heap[refs.caller] = metadata
        /\ OwnObjects(refs.first, {})
        /\ OwnObjects(refs.second, Range(refs.first))
        /\ documents = split_text_into_chunks(text, metadata)
        /\ \A j \in 1..Len(refs.first) :
              j # refs.touched => heap[refs.first[j]] = documents[j].metadata
        /\ chunkPc = "alias_second" =>
              DocumentsAt(heap, refs.second, split_text(text)) = documents

\* a caller that passed its own mapping has set its key "topic" to another
\* value in one of three returned chunks and called again
C23_Witness ==
    /\ chunkPc = "alias_second"
    /\ refs.caller # 0
    /\ "topic" \in DOMAIN metadata
    /\ Len(refs.first) >= 3
    /\ refs.touched = 2
    /\ heap[refs.first[2]]["topic"] = "changed"
    /\ heap[refs.caller]["topic"] = "t"
    /\ Len(refs.second) = Len(refs.first)

----------------------------------------------------------------------------
(* C24 and C25 *)

\* the last ingestion call reached add_documents and one of its embedding
\* or insert calls failed
StoreCallFailed == AddDone /\ lastAdd.error \in FailKinds

\* the rows from number n + 1 on are the first m chunks of the last call, in
\* chunk order
HoldsFirstChunks(n, m) ==
    /\ Len(rows) = n + m
    /\ \A i \in 1..m :
          /\ rows[n + i].metadata["chunk_index"] = i - 1
          /\ rows[n + i].metadata["total_chunks"] = lastAdd.chunks

\* C24: add_text_document is not atomic.  When the embedding or the insert
\* of chunk number j (from 1) fails, the rows of the j - 1 chunks before it
\* stay in the table in chunk order, nothing is embedded or inserted for a
\* later chunk, and the call returns False without raising although the
\* table has grown.
C24_IngestionKeepsRowsBeforeFailure ==
    (StoreCallFailed /\ lastAdd.op = "add_text_document") =>
        /\ lastAdd.failAt \in 1..lastAdd.chunks
        /\ lastAdd.raised = FALSE
        /\ lastAdd.value = FALSE
        /\ lastAdd.inserted = lastAdd.failAt - 1
        /\ HoldsFirstChunks(lastAdd.rowsBefore, lastAdd.failAt - 1)
        /\ lastAdd.embedCalls = lastAdd.failAt
        /\ lastAdd.insertCalls =
              IF lastAdd.failKind = "store"
              THEN lastAdd.failAt ELSE lastAdd.failAt - 1

\* the embedding of the second chunk of a text failed: the first chunk is
\* in the table and the call returned False
C24_Witness ==
    /\ StoreCallFailed
    /\ lastAdd.op = "add_text_document"
    /\ lastAdd.failKind = "embedding"
    /\ lastAdd.failAt = 2
    /\ lastAdd.value = FALSE
    /\ lastAdd.rowsBefore = 0
    /\ Len(rows) = 1
    /\ rows[1].metadata["chunk_index"] = 0

\* the last ingestion call got as far as handing its chunks over
ReachedStoreStep ==
    /\ AddDone
    /\ lastAdd.splitOK
    /\ {"embedding_manager", "supabase_manager"} \subseteq attrs

\* no embedding call, no insert call, and the table as it was
NoStoreTraffic ==
    /\ lastAdd.embedCalls = 0
    /\ lastAdd.insertCalls = 0
    /\ lastAdd.inserted = 0
    /\ Len(rows) = lastAdd.rowsBefore

\* C25: the two entry points treat zero chunks differently.  For a text
\* that yields no chunk add_text_document makes no embedding and no insert
\* call and returns True; add_documents_from_files returns False without
\* calling the store when no chunk was produced from any of its files, the
\* empty file list included.
C25_ZeroChunksTrueForTextFalseForFiles ==
    /\ (ReachedStoreStep /\ lastAdd.op = "add_text_document"
          /\ lastAdd.chunks = 0) =>
          /\ lastAdd.value = TRUE
          /\ lastAdd.raised = FALSE
          /\ NoStoreTraffic
    /\ (ReachedStoreStep /\ lastAdd.op = "add_documents_from_files"
          /\ ProcessableChunks(lastAdd.file_paths, lastAdd.broken) = 0) =>
          /\ lastAdd.value = FALSE
          /\ lastAdd.raised = FALSE
          /\ lastAdd.chunks = 0
          /\ NoStoreTraffic

\* add_documents_from_files was given one readable file that is empty and
\* returned False
C25_Witness ==
    /\ ReachedStoreStep
    /\ lastAdd.op = "add_documents_from_files"
    /\ lastAdd.file_paths = <<PathE>>
    /\ lastAdd.broken = {}
    /\ lastAdd.skipped = 0
    /\ lastAdd.value = FALSE
    /\ NoStoreTraffic

====
